---- MODULE Spec2Model ----
(***************************************************************************)
(* A model of the ChatCanvas layout engine: the message list held in React *)
(* state, the refs that lag it by one render, the placement layout effect, *)
(* the slot finders, dragging and the overlap resolver.                    *)
(*                                                                         *)
(* Pixel coordinates are integers.  A horizontal center may be a half      *)
(* pixel (x + w/2 with w odd), so centers are kept doubled (2x + w).       *)
(***************************************************************************)
EXTENDS Integers, Sequences, FiniteSets, TLC

\* ------------------------------------------------------------ bounds
\* how many messages are ever created (ids are 1..MaxIds, never reused)
MaxIds == 6
\* how many messages are created in a run in which bubbles are dragged
DragIds == 4
\* how many drags are started in such a run
MaxDrags == 1
\* how many messages are created in a run in which reply text is streamed
StreamIds == 4
\* how many bubbles of the list hold streamed text at a time in such a run
MaxStreamed == 1

\* ------------------------------------------------------------ constants.js
GRID == 20
GAP == 64
SIDE_GAP == 128
PADDING == 28
EDGE_PADDING == 80
MAX_SCAN == 500
MAX_RESOLVE_PASSES == 8

Max(a, b) == IF a >= b THEN a ELSE b
Min(a, b) == IF a <= b THEN a ELSE b
Abs(a) == IF a >= 0 THEN a ELSE -a
\* Math.round(n / d) for integers n and d > 0 (halves round up)
RoundDiv(n, d) == (2 * n + d) \div (2 * d)
\* Math.ceil(n / d)
CeilDiv(n, d) == (n + d - 1) \div d

gapCells == Max(1, RoundDiv(GAP, GRID))
padCells == Max(1, RoundDiv(PADDING, GRID))
leftEdgeCol == CeilDiv(EDGE_PADDING, GRID)
sideGapCells == Max(1, RoundDiv(SIDE_GAP, GRID))

\* ------------------------------------------------------------ utils/grid
snap(n) == RoundDiv(n, GRID) * GRID
toCol(x) == x \div GRID
toRow(y) == y \div GRID
fromCol(c) == c * GRID
fromRow(r) == r * GRID
\* toCol of a half-pixel quantity given doubled (toCol(c2 / 2))
toColHalf(c2) == c2 \div (2 * GRID)

\* ------------------------------------------------------------ values
\* JS null for a coordinate or a table entry
Null == -1000000
\* JS null for a parentId / an id
NoId == 0
Ids == 1..MaxIds
\* window.innerWidth / window.innerHeight
ViewportW == 1400
ViewportH == 800
\* fallback bubble size when nothing has been measured
DefaultW == 300
DefaultH == 100
NoSize == [w |-> 0, h |-> 0]
\* sizes a ResizeObserver may report: for a user bubble, for an assistant bubble
UserSizes == {[w |-> 300, h |-> 100], [w |-> 170, h |-> 59]}
AssistantSizes == {[w |-> 250, h |-> 119]}
\* the runs explored: without drags, and shorter ones with drags or with streamed
\* reply text
Runs ==
  {[ids |-> MaxIds, drags |-> 0, streamed |-> 0],
   [ids |-> DragIds, drags |-> MaxDrags, streamed |-> 0],
   [ids |-> StreamIds, drags |-> 0, streamed |-> MaxStreamed]}
\* pointer positions a drag may move a bubble to (clientX - offset.x, ...)
DragTargets == {[x |-> 557, y |-> 251], [x |-> 33, y |-> 90]}

VARIABLES
  messages,       \* React state: the message list
  messagesRef,    \* messagesRef.current
  sizes,          \* bubbleSizesRef.current: id -> size or NoSize
  stageSize,      \* React state {width, height}
  stageSizeRef,   \* stageSizeRef.current
  rootCenters,    \* rootCentersRef.current: root id -> doubled center or Null
  mainTail,       \* mainTailByRootRef.current: root id -> id or NoId
  nextId,         \* ids handed out so far + 1
  phase,          \* is a render pending: "idle" none; "sync" one that runs before any
                  \* other event (a setState in an event handler or in the layout
                  \* effect); "scheduled" one that is batched and runs in a later
                  \* task (a setState in a ResizeObserver or animation-frame
                  \* callback), so that an input event can come first
  drag,           \* dragStartRef.id, isDragging, draggedMessageId
  raf,            \* pending requestAnimationFrame callbacks of handleMouseUp
  drags,          \* drags started so far
  run,            \* the bounds of this run (an element of Runs)
  last            \* what the last step did and read (observation only): the handler,
                  \* the list and the stage width it read, whether it committed,
                  \* whether the resolver stopped early

vars == <<messages, messagesRef, sizes, stageSize, stageSizeRef, rootCenters,
          mainTail, nextId, phase, drag, raf, drags, run, last>>

isPlaced(m) == m.x # Null /\ m.y # Null
hasMsg(list, id) == \E i \in 1..Len(list) : list[i].id = id
\* list.find(x => x.id === id), for an id that is in the list
findMsg(list, id) == list[CHOOSE i \in 1..Len(list) : list[i].id = id]
idsOf(list) == {list[i].id : i \in 1..Len(list)}
sizeOr(id) == IF sizes[id] = NoSize THEN [w |-> DefaultW, h |-> DefaultH] ELSE sizes[id]

clampYNoBottom(y) == snap(Max(EDGE_PADDING, y))

\* the setStageSize updaters of ensureHeightForRect / ensureWidthForRect
ensureHeightForRect(st, y, h) ==
  LET needed == y + h + EDGE_PADDING
  IN IF needed > st.height THEN [st EXCEPT !.height = Max(needed, ViewportH)] ELSE st
ensureWidthForRect(st, x, w) ==
  LET needed == x + w + EDGE_PADDING
  IN IF needed > st.width THEN [st EXCEPT !.width = Max(needed, ViewportW)] ELSE st

\* where Bubble renders an unplaced message (left/top: -10000)
OffScreen == -10000
\* getRectFor(m): the message's own coordinates, else where its element is
getRectFor(m) ==
  [x |-> IF m.x = Null THEN OffScreen ELSE m.x,
   y |-> IF m.y = Null THEN OffScreen ELSE m.y,
   w |-> sizeOr(m.id).w, h |-> sizeOr(m.id).h]

\* ------------------------------------------------------------ utils/thread
RECURSIVE rootWalk(_, _, _)
rootWalk(list, cur, fuel) ==
  IF fuel = 0 \/ cur.parentId = NoId THEN cur.id
  ELSE IF hasMsg(list, cur.parentId) THEN rootWalk(list, findMsg(list, cur.parentId), fuel - 1)
  ELSE NoId
\* cur?.id ?? id
idOr(r, id) == IF r = NoId THEN id ELSE r
getRootIdOf(list, id) ==
  IF ~hasMsg(list, id) THEN id
  ELSE idOr(rootWalk(list, findMsg(list, id), Len(list)), id)

\* the later of two messages by timestamp, as the reduce of getTailIdForRoot
laterOf(a, b) == IF a.ts > b.ts THEN a ELSE b
RECURSIVE reduceLater(_, _, _)
reduceLater(list, acc, i) ==
  IF i > Len(list) THEN acc ELSE reduceLater(list, laterOf(acc, list[i]), i + 1)
tailOf(mainOnly, rootId) ==
  IF Len(mainOnly) = 0 THEN rootId ELSE reduceLater(mainOnly, mainOnly[1], 2).id
getTailIdForRoot(list, rootId) ==
  tailOf(SelectSeq(list, LAMBDA m : ~m.isThread /\ rootWalk(list, m, Len(list)) = rootId),
         rootId)

\* ------------------------------------------------------------ layout/placement
rectsOverlap(a, b) ==
  ~( a.col + a.spanX <= b.col
     \/ b.col + b.spanX <= a.col
     \/ a.row + a.spanY <= b.row
     \/ b.row + b.spanY <= a.row )

\* gridRectOf without the padCells added on both sides of the spans
gridRectOfUnpadded(id, r) ==
  [id |-> id,
   col |-> Max(leftEdgeCol, toCol(r.x) - padCells),
   row |-> Max(leftEdgeCol, toRow(r.y)),
   spanX |-> Max(1, CeilDiv(r.w + PADDING, GRID)),
   spanY |-> Max(1, CeilDiv(r.h + PADDING, GRID))]
gridRectOf(id, r) ==
  [id |-> id,
   col |-> Max(leftEdgeCol, toCol(r.x) - padCells),
   row |-> Max(leftEdgeCol, toRow(r.y)),
   spanX |-> Max(1, CeilDiv(r.w + PADDING, GRID)) + padCells * 2,
   spanY |-> Max(1, CeilDiv(r.h + PADDING, GRID)) + padCells * 2]
getMsgGridRect(m) == gridRectOf(m.id, getRectFor(m))

gridRectsOf(kept) == [i \in 1..Len(kept) |-> getMsgGridRect(kept[i])]
buildOccupancy(list, excludeIds) ==
  gridRectsOf(SelectSeq(list, LAMBDA m : isPlaced(m) /\ m.id \notin excludeIds))

probeOf(col, row, spanX, spanY) ==
  [col |-> col - padCells, row |-> row,
   spanX |-> spanX + padCells * 2, spanY |-> spanY + padCells * 2]
isFreeRect(occRects, col, row, spanX, spanY) ==
  IF col < leftEdgeCol THEN FALSE
  ELSE ~(\E i \in 1..Len(occRects) : rectsOverlap(occRects[i], probeOf(col, row, spanX, spanY)))

spanOf(px) == Max(1, CeilDiv(px + PADDING, GRID))
NoPos == [x |-> Null, y |-> Null, side |-> "none"]
slot(col, row, side) == [x |-> snap(fromCol(col)), y |-> snap(fromRow(row)), side |-> side]

\* a || b for positions: the first one found
firstPos(a, b) == IF a # NoPos THEN a ELSE b
leftSlot(occRects, left, row, spanX, spanY) ==
  IF left >= leftEdgeCol /\ isFreeRect(occRects, left, row, spanX, spanY)
  THEN slot(left, row, "left") ELSE NoPos
rightSlot(occRects, right, row, spanX, spanY) ==
  IF isFreeRect(occRects, right, row, spanX, spanY) THEN slot(right, row, "right") ELSE NoPos

\* tryOrder(r) of findSideSlotOnRow
tryOrder(occRects, row, startRightCol, startLeftCol, spanX, spanY, preferSide, r) ==
  IF preferSide = "left"
  THEN firstPos(leftSlot(occRects, startLeftCol - r, row, spanX, spanY),
                rightSlot(occRects, startRightCol + r, row, spanX, spanY))
  ELSE firstPos(rightSlot(occRects, startRightCol + r, row, spanX, spanY),
                leftSlot(occRects, startLeftCol - r, row, spanX, spanY))

\* The scan loops of placement.js return at the first position they find.
\* Each is modelled by an operator over the rounds lo..hi of the loop: the
\* position of the first round that finds one, NoPos when no round does.  The
\* rounds are split in halves to keep the evaluation shallow.
\* the for loop of findSideSlotOnRow (lines 81-85), rounds lo..hi
RECURSIVE sideScanIn(_, _, _, _, _, _, _, _, _)
sideScanIn(occRects, row, startRightCol, startLeftCol, spanX, spanY, preferSide, lo, hi) ==
  IF lo > hi THEN NoPos
  ELSE IF lo = hi
  THEN tryOrder(occRects, row, startRightCol, startLeftCol, spanX, spanY, preferSide, lo)
  ELSE firstPos(sideScanIn(occRects, row, startRightCol, startLeftCol, spanX, spanY, preferSide,
                           lo, (lo + hi) \div 2),
                sideScanIn(occRects, row, startRightCol, startLeftCol, spanX, spanY, preferSide,
                           (lo + hi) \div 2 + 1, hi))
\* the rounds r..MAX_WIDE
sideScan(occRects, row, startRightCol, startLeftCol, spanX, spanY, preferSide, r) ==
  sideScanIn(occRects, row, startRightCol, startLeftCol, spanX, spanY, preferSide,
             r, Max(MAX_SCAN, 200))

\* findSideSlotOnRow scanning the row of the parent's bottom edge, not of its top
findSideSlotOnRowBottom(occRects, parentRect, w, h, preferSide) ==
  sideScan(occRects, toRow(parentRect.y + parentRect.h),
           toCol(parentRect.x + parentRect.w) + sideGapCells,
           toCol(parentRect.x) - sideGapCells - spanOf(w),
           spanOf(w), spanOf(h), preferSide, 0)
findSideSlotOnRow(occRects, parentRect, w, h, preferSide) ==
  sideScan(occRects, toRow(parentRect.y),
           toCol(parentRect.x + parentRect.w) + sideGapCells,
           toCol(parentRect.x) - sideGapCells - spanOf(w),
           spanOf(w), spanOf(h), preferSide, 0)

maxSpread == 500
\* round d of the for loop of findSlotBelow (lines 96-109)
spreadTry(occRects, row, baseCol, spanX, spanY, d) ==
  IF baseCol + d >= leftEdgeCol /\ isFreeRect(occRects, baseCol + d, row, spanX, spanY)
  THEN slot(baseCol + d, row, "below")
  ELSE IF baseCol - d >= leftEdgeCol /\ isFreeRect(occRects, baseCol - d, row, spanX, spanY)
  THEN slot(baseCol - d, row, "below")
  ELSE NoPos
\* the rounds lo..hi of that loop
RECURSIVE spreadScanIn(_, _, _, _, _, _, _)
spreadScanIn(occRects, row, baseCol, spanX, spanY, lo, hi) ==
  IF lo > hi THEN NoPos
  ELSE IF lo = hi THEN spreadTry(occRects, row, baseCol, spanX, spanY, lo)
  ELSE firstPos(spreadScanIn(occRects, row, baseCol, spanX, spanY, lo, (lo + hi) \div 2),
                spreadScanIn(occRects, row, baseCol, spanX, spanY, (lo + hi) \div 2 + 1, hi))
\* the rounds d..maxSpread - 1
spreadScan(occRects, row, baseCol, spanX, spanY, d) ==
  spreadScanIn(occRects, row, baseCol, spanX, spanY, d, maxSpread - 1)

\* the last resort of findSlotBelow: the parent's snapped x, below the parent
belowParent(parentRect) ==
  [x |-> snap(parentRect.x), y |-> snap(parentRect.y + GAP + parentRect.h), side |-> "below"]

\* findSlotBelow without its last resort: null when the scan is exhausted
findSlotBelowNoFallback(occRects, parentRect, w, h) ==
  spreadScan(occRects, toRow(parentRect.y + parentRect.h) + gapCells,
             toColHalf(2 * parentRect.x + parentRect.w) - (spanOf(w) \div 2),
             spanOf(w), spanOf(h), 0)
findSlotBelow(occRects, parentRect, w, h) ==
  firstPos(spreadScan(occRects, toRow(parentRect.y + parentRect.h) + gapCells,
                      toColHalf(2 * parentRect.x + parentRect.w) - (spanOf(w) \div 2),
                      spanOf(w), spanOf(h), 0),
           belowParent(parentRect))

MAX_DROP == 1000
\* one round of the for loop of findSlotBelowAtCenter and findSlotBelowAtX
\* (lines 124-131, 144-150)
dropTry(occRects, startCol, row, spanX, spanY) ==
  IF isFreeRect(occRects, startCol, row, spanX, spanY) THEN slot(startCol, row, "below")
  ELSE NoPos
\* the rounds lo..hi of that loop, row0 being the row of round 0
RECURSIVE dropScanIn(_, _, _, _, _, _, _)
dropScanIn(occRects, startCol, row0, spanX, spanY, lo, hi) ==
  IF lo > hi THEN NoPos
  ELSE IF lo = hi THEN dropTry(occRects, startCol, row0 + lo, spanX, spanY)
  ELSE firstPos(dropScanIn(occRects, startCol, row0, spanX, spanY, lo, (lo + hi) \div 2),
                dropScanIn(occRects, startCol, row0, spanX, spanY, (lo + hi) \div 2 + 1, hi))
\* the rounds i..MAX_DROP - 1, row being the row of round i
dropScan(occRects, startCol, row, spanX, spanY, i) ==
  dropScanIn(occRects, startCol, row - i, spanX, spanY, i, MAX_DROP - 1)

\* findSlotBelowAtCenter with the target center taken for the left edge (the
\* "- w / 2" of startCol forgotten)
findSlotBelowAtCenterLeft(occRects, targetCenter2, parentRect, w, h) ==
  firstPos(dropScan(occRects, Max(leftEdgeCol, toColHalf(targetCenter2)),
                    toRow(parentRect.y + parentRect.h) + gapCells, spanOf(w), spanOf(h), 0),
           findSlotBelow(occRects, parentRect, w, h))
\* targetCenter2 is the doubled targetCenterX
findSlotBelowAtCenter(occRects, targetCenter2, parentRect, w, h) ==
  firstPos(dropScan(occRects, Max(leftEdgeCol, toColHalf(targetCenter2 - w)),
                    toRow(parentRect.y + parentRect.h) + gapCells, spanOf(w), spanOf(h), 0),
           findSlotBelow(occRects, parentRect, w, h))

findSlotBelowAtX(occRects, targetLeftX, parentRect, w, h) ==
  firstPos(dropScan(occRects, Max(leftEdgeCol, toCol(targetLeftX)),
                    toRow(parentRect.y + parentRect.h) + gapCells, spanOf(w), spanOf(h), 0),
           findSlotBelow(occRects, parentRect, w, h))

sideOrBelow(occ, parentRect, w, h, preferSide) ==
  firstPos(findSideSlotOnRow(occ, parentRect, w, h, preferSide),
           findSlotBelow(occ, parentRect, w, h))
choosePlacement(list, parentRect, w, h, excludeIds, preferSide) ==
  sideOrBelow(buildOccupancy(list, excludeIds), parentRect, w, h, preferSide)

\* ------------------------------------------------------------ ChatCanvas.jsx: placement effect
rectsOverlapPx(a, b) ==
  ~( a.x + a.w <= b.x
     \/ b.x + b.w <= a.x
     \/ a.y + a.h <= b.y
     \/ b.y + b.h <= a.y )

pxRectsOf(kept) ==
  [i \in 1..Len(kept) |->
     [id |-> kept[i].id, x |-> kept[i].x, y |-> kept[i].y,
      w |-> sizeOr(kept[i].id).w, h |-> sizeOr(kept[i].id).h]]
buildPlacedRectsExcluding(next, excludeId) ==
  pxRectsOf(SelectSeq(next, LAMBDA m : m.id # excludeId /\ isPlaced(m)))

\* the for loop of stackBelowAtX: one sweep over the placed rects
RECURSIVE stackSweep(_, _, _, _)
stackSweep(placed, cand, changed, i) ==
  IF i > Len(placed) THEN [c |-> cand, ch |-> changed]
  ELSE IF rectsOverlapPx(cand, placed[i])
       THEN stackSweep(placed, [cand EXCEPT !.y = snap(placed[i].y + placed[i].h + GAP)], TRUE, i + 1)
       ELSE stackSweep(placed, cand, changed, i + 1)

\* the while loop of stackBelowAtX, bounded by its guard
stackGuard == 200
RECURSIVE stackLoop(_, _, _)
RECURSIVE stackAgain(_, _, _)
\* stackBelowAtX with one sweep over the placed rects, the while loop left out
stackLoopOnce(placed, cand, guard) == stackSweep(placed, cand, FALSE, 1).c
stackLoop(placed, cand, guard) ==
  IF guard >= stackGuard THEN cand ELSE stackAgain(placed, stackSweep(placed, cand, FALSE, 1), guard)
stackAgain(placed, r, guard) == IF r.ch THEN stackLoop(placed, r.c, guard + 1) ELSE r.c

belowPos(cand) == [x |-> cand.x, y |-> cand.y, side |-> "below"]
\* stackBelowAtX with the candidate centered under the parent, not at targetLeftX
stackBelowAtXCentered(next, targetLeftX, parentRect, sizeWH, excludeId) ==
  belowPos(stackLoop(buildPlacedRectsExcluding(next, excludeId),
                     [x |-> snap(parentRect.x + (parentRect.w - sizeWH.w) \div 2),
                      y |-> snap(parentRect.y + parentRect.h + GAP),
                      w |-> sizeWH.w, h |-> sizeWH.h],
                     0))
stackBelowAtX(next, targetLeftX, parentRect, sizeWH, excludeId) ==
  belowPos(stackLoop(buildPlacedRectsExcluding(next, excludeId),
                     [x |-> snap(targetLeftX), y |-> snap(parentRect.y + parentRect.h + GAP),
                      w |-> sizeWH.w, h |-> sizeWH.h],
                     0))

\* preferSide of a user message that starts a thread (lines 306-316)
\* sideOfCounts with equal counts going right
sideOfCountsTiesRight(leftCount, total) == IF leftCount < total - leftCount THEN "left" ELSE "right"
sideOfCounts(leftCount, total) == IF leftCount <= total - leftCount THEN "left" ELSE "right"
leftCountOf(siblings, parentCenter2) ==
  Cardinality({i \in 1..Len(siblings) :
                 2 * getRectFor(siblings[i]).x + getRectFor(siblings[i]).w < parentCenter2})
preferSideOf(siblings, parentCenter2) ==
  sideOfCounts(leftCountOf(siblings, parentCenter2), Len(siblings))
preferSideFor(m, pr) ==
  preferSideOf(SelectSeq(messagesRef,
                 LAMBDA x : x.parentId = m.parentId /\ isPlaced(x) /\ x.id # m.id),
               2 * pr.x + pr.w)

\* where a thread that found no slot on the row is anchored (lines 323-325)
sideAnchorX(preferSide, pr, w) ==
  IF preferSide = "left"
  THEN Max(EDGE_PADDING, pr.x - sideGapCells * GRID - w)
  ELSE pr.x + pr.w + sideGapCells * GRID

\* lines 320-327: a below-placement is replaced by a stack under the side anchor
anchoredIfBelow(pos, m, pr, size, preferSide) ==
  IF pos.side = "below"
  THEN findSlotBelowAtX(buildOccupancy(messagesRef, {m.id}), sideAnchorX(preferSide, pr, size.w),
                        pr, size.w, size.h)
  ELSE pos
newThreadOn(m, pr, size, preferSide) ==
  anchoredIfBelow(choosePlacement(messagesRef, pr, size.w, size.h, {m.id}, preferSide),
                  m, pr, size, preferSide)
\* a user message starting a thread off a non-thread parent (lines 305-327)
newThreadPos(m, pr, size) == newThreadOn(m, pr, size, preferSideFor(m, pr))

\* the pinned center used for a main-chain message (lines 337-344), doubled
centerOf(r) == 2 * r.x + r.w
pinFor(centers, rootId) ==
  IF centers[rootId] # Null THEN centers[rootId]
  ELSE IF hasMsg(messagesRef, rootId) THEN centerOf(getRectFor(findMsg(messagesRef, rootId)))
  ELSE stageSizeRef.width

\* the position computed for a message with a placed parent (lines 289-349)
childPos(next, centers, m, pr, size) ==
  IF m.isThread
  THEN IF m.user /\ ~findMsg(messagesRef, m.parentId).isThread
       THEN newThreadPos(m, pr, size)
       ELSE stackBelowAtX(next, pr.x, pr, size, m.id)
  ELSE findSlotBelowAtCenter(buildOccupancy(messagesRef, {m.id}),
                             pinFor(centers, getRootIdOf(messagesRef, m.parentId)),
                             pr, size.w, size.h)

\* lines 337-356: the pin, the tail and the coordinates written for a child
writeChild(st, i, m, size, rootId, nx, ny) ==
  [st EXCEPT
     !.next[i].x = nx,
     !.next[i].y = ny,
     !.centers = IF m.isThread THEN @ ELSE [@ EXCEPT ![rootId] = pinFor(st.centers, rootId)],
     !.localTail = IF m.isThread THEN @ ELSE [@ EXCEPT ![rootId] = m.id],
     !.stage = ensureHeightForRect(ensureWidthForRect(@, nx, size.w), ny, size.h),
     !.changed = TRUE]
commitChild(st, i, m, pos) ==
  writeChild(st, i, m, sizes[m.id], getRootIdOf(messagesRef, m.parentId),
             pos.x, clampYNoBottom(pos.y))
\* a message with a parent (lines 284-356); st is the pass's working state
placeChild(st, i) ==
  commitChild(st, i, st.next[i],
              childPos(st.next, st.centers, st.next[i],
                       getRectFor(findMsg(st.next, st.next[i].parentId)),
                       sizes[st.next[i].id]))

\* the lowest placed root: reduce((a, b) => a.y > b.y ? a : b)
RECURSIVE lowestOf(_, _, _)
lowestOf(roots, acc, i) ==
  IF i > Len(roots) THEN acc
  ELSE lowestOf(roots, IF getRectFor(acc).y > getRectFor(roots[i]).y THEN acc ELSE roots[i], i + 1)

\* rootX with the left edge, not the center, put on the middle of the stage
rootXLeftAtMiddle(w) == snap((stageSizeRef.width + 1) \div 2)
\* x of a root: snap(Math.round((stageSizeRef.current.width - rectW) / 2))
rootX(w) == snap((stageSizeRef.width - w + 1) \div 2)
\* y of a root (lines 361-374)
\* belowRect with the GAP forgotten
belowRectNoGap(lr) == clampYNoBottom(lr.y + lr.h)
belowRect(lr) == clampYNoBottom(lr.y + lr.h + GAP)
rootYUnder(placedRoots) ==
  IF Len(placedRoots) = 0 THEN snap(EDGE_PADDING)
  ELSE belowRect(getRectFor(lowestOf(placedRoots, placedRoots[1], 2)))
rootY(next) == rootYUnder(SelectSeq(next, LAMBDA t : t.parentId = NoId /\ isPlaced(t)))

writeRoot(st, i, m, size, nx, ny) ==
  [st EXCEPT
     !.next[i].x = nx,
     !.next[i].y = ny,
     !.centers[m.id] = 2 * nx + size.w,
     !.tailRef[m.id] = m.id,
     !.stage = ensureHeightForRect(ensureWidthForRect(@, nx, size.w), ny, size.h),
     !.changed = TRUE]
\* a root message (lines 357-384)
placeRoot(st, i) ==
  writeRoot(st, i, st.next[i], sizes[st.next[i].id], rootX(sizes[st.next[i].id].w), rootY(st.next))

\* skipped without the test for a message that is already placed
skippedNotPlacedTest(m) ==
  \/ sizes[m.id] = NoSize
  \/ /\ m.parentId # NoId
     /\ \/ ~hasMsg(messagesRef, m.parentId)
        \/ findMsg(messagesRef, m.parentId).x = Null
\* skipped without the test for a parent that is not placed
skippedNoParentTest(m) ==
  \/ isPlaced(m)
  \/ sizes[m.id] = NoSize
\* skipped without the test for a missing size
skippedNoSizeTest(m) ==
  \/ isPlaced(m)
  \/ /\ m.parentId # NoId
     /\ \/ ~hasMsg(messagesRef, m.parentId)
        \/ findMsg(messagesRef, m.parentId).x = Null
\* skipped with the parent test reading the message itself, not its parent
skippedSelfTest(m) ==
  \/ isPlaced(m)
  \/ sizes[m.id] = NoSize
  \/ /\ m.parentId # NoId
     /\ \/ ~hasMsg(messagesRef, m.id)
        \/ findMsg(messagesRef, m.id).x = Null
\* does the loop skip the message (lines 279-286)
skipped(m) ==
  \/ isPlaced(m)
  \/ sizes[m.id] = NoSize
  \/ /\ m.parentId # NoId
     /\ \/ ~hasMsg(messagesRef, m.parentId)
        \/ findMsg(messagesRef, m.parentId).x = Null

\* one iteration of the for loop (lines 277-385)
placeOne(st, i) ==
  IF skipped(st.next[i]) THEN st
  ELSE IF st.next[i].parentId # NoId THEN placeChild(st, i)
  ELSE placeRoot(st, i)

RECURSIVE placeFrom(_, _)
placeFrom(st, i) == IF i > Len(st.next) THEN st ELSE placeFrom(placeOne(st, i), i + 1)

\* the whole layout effect: its working state after the loop
placementPass ==
  placeFrom([next |-> messagesRef, centers |-> rootCenters, tailRef |-> mainTail,
             localTail |-> mainTail, stage |-> stageSize, changed |-> FALSE], 1)

\* ------------------------------------------------------------ layout/resolveOverlaps
overlapOf(ar, br) ==
  [x |-> Max(0, Min(ar.x + ar.w, br.x + br.w) - Max(ar.x, br.x)),
   y |-> Max(0, Min(ar.y + ar.h, br.y + br.h) - Max(ar.y, br.y))]
overlapAmount(a, b) == overlapOf(getRectFor(a), getRectFor(b))

\* the sort comparator: (a.y ?? 0) - (b.y ?? 0) || (a.x ?? 0) - (b.x ?? 0)
orZero(v) == IF v = Null THEN 0 ELSE v
sortsAfter(a, b) ==
  IF orZero(a.y) # orZero(b.y) THEN orZero(a.y) > orZero(b.y) ELSE orZero(a.x) > orZero(b.x)

\* Array.prototype.sort is stable: insert each element after the last one not above it
RECURSIVE insertSorted(_, _)
insertSorted(sorted, m) ==
  IF Len(sorted) = 0 THEN <<m>>
  ELSE IF sortsAfter(sorted[Len(sorted)], m)
       THEN Append(insertSorted(SubSeq(sorted, 1, Len(sorted) - 1), m), sorted[Len(sorted)])
       ELSE Append(sorted, m)
RECURSIVE sortByYX(_, _, _)
sortByYX(list, acc, i) ==
  IF i > Len(list) THEN acc ELSE sortByYX(list, insertSorted(acc, list[i]), i + 1)

\* push B down below A (lines 40-42)
pushedDown(B, oy) == [B EXCEPT !.y = clampYNoBottom(orZero(B.y) + oy + PADDING)]

\* the x chosen with the candidates tried in the order right, left whatever
\* side B leans toward
finalXOfRightFirst(tryRight, tryLeft, rightFits, preferRight) ==
  IF rightFits THEN tryRight ELSE tryLeft
\* the x chosen among the two candidates (lines 47-50)
finalXOf(tryRight, tryLeft, rightFits, preferRight) ==
  IF preferRight /\ rightFits THEN tryRight
  ELSE IF tryLeft >= EDGE_PADDING THEN tryLeft
  ELSE IF rightFits THEN tryRight ELSE tryLeft
sidewaysX(bx, ax, bw, tryRight, tryLeft) ==
  finalXOf(tryRight, tryLeft, tryRight + bw + EDGE_PADDING <= stageSizeRef.width, bx >= ax)
\* push B sideways (lines 43-52)
pushedSideways(A, B, ox) ==
  [B EXCEPT !.x = sidewaysX(orZero(B.x), orZero(A.x), sizeOr(B.id).w,
                            snap(orZero(B.x) + ox + PADDING), snap(orZero(B.x) - (ox + PADDING)))]

\* same parent and nearly the same row (lines 29-30)
isSiblings(A, B, ay, by, ah) ==
  A.parentId # NoId /\ A.parentId = B.parentId /\ Abs(ay - by) <= Max(GRID, ah \div 2)
\* does the resolver push B down (TRUE) or sideways (lines 29-37)
pushDownChosen(A, B, o) ==
  IF isSiblings(A, B, getRectFor(A).y, getRectFor(B).y, getRectFor(A).h) THEN FALSE
  ELSE (o.y >= o.x \/ ~A.isThread \/ ~B.isThread)

withDown(rs, j, nb) ==
  [list |-> [rs.list EXCEPT ![j] = nb],
   stage |-> ensureHeightForRect(rs.stage, nb.y, sizeOr(nb.id).h),
   changed |-> TRUE]
withSideways(rs, j, nb) ==
  [list |-> [rs.list EXCEPT ![j] = nb],
   stage |-> ensureWidthForRect(rs.stage, nb.x, sizeOr(nb.id).w),
   changed |-> TRUE]
resolveOverlapping(rs, j, A, B, o) ==
  IF o.x > 0 /\ o.y > 0
  THEN IF pushDownChosen(A, B, o) THEN withDown(rs, j, pushedDown(B, o.y))
       ELSE withSideways(rs, j, pushedSideways(A, B, o.x))
  ELSE rs
resolveAB(rs, j, A, B) ==
  IF ~isPlaced(A) \/ ~isPlaced(B) THEN rs
  ELSE resolveOverlapping(rs, j, A, B, overlapAmount(A, B))
\* the body of the double loop for one pair i < j; rs = [list, stage, changed]
resolvePair(rs, i, j) == resolveAB(rs, j, rs.list[i], rs.list[j])

RECURSIVE resolveLoop(_, _, _)
resolveLoop(rs, i, j) ==
  IF i > Len(rs.list) THEN rs
  ELSE IF j > Len(rs.list) THEN resolveLoop(rs, i + 1, i + 2)
  ELSE resolveLoop(resolvePair(rs, i, j), i, j + 1)

\* the pass loop: [list, stage, changed, passes] after at most MAX_RESOLVE_PASSES
\* passes; changed tells whether the last pass executed still changed something,
\* passes how many passes were executed
RECURSIVE resolvePasses(_, _, _)
RECURSIVE afterPass(_, _)
resolvePasses(list, stage, pass) ==
  IF pass >= MAX_RESOLVE_PASSES
  THEN [list |-> list, stage |-> stage, changed |-> TRUE, passes |-> pass]
  ELSE afterPass(resolveLoop([list |-> sortByYX(list, <<>>, 1), stage |-> stage,
                              changed |-> FALSE], 1, 2),
                 pass)
\* the end of a pass without line 60, if (!changed) break
afterPassNoBreak(rs, pass) == resolvePasses(rs.list, rs.stage, pass + 1)
afterPass(rs, pass) ==
  IF ~rs.changed
  THEN [list |-> rs.list, stage |-> rs.stage, changed |-> FALSE, passes |-> pass + 1]
  ELSE resolvePasses(rs.list, rs.stage, pass + 1)

\* the final map without snap
normalizeOneUnsnapped(m) ==
  IF ~isPlaced(m) THEN m
  ELSE [m EXCEPT !.x = Max(m.x, EDGE_PADDING), !.y = Max(EDGE_PADDING, m.y)]
\* the final map (lines 62-70)
normalizeOne(m) ==
  IF ~isPlaced(m) THEN m
  ELSE [m EXCEPT !.x = snap(Max(m.x, EDGE_PADDING)), !.y = clampYNoBottom(m.y)]
ensureBoth(stage, n) ==
  ensureHeightForRect(ensureWidthForRect(stage, n.x, sizeOr(n.id).w), n.y, sizeOr(n.id).h)
RECURSIVE normalizeStage(_, _, _)
normalizeStage(list, stage, i) ==
  IF i > Len(list) THEN stage
  ELSE IF ~isPlaced(list[i]) THEN normalizeStage(list, stage, i + 1)
  ELSE normalizeStage(list, ensureBoth(stage, normalizeOne(list[i])), i + 1)

normalized(rs) ==
  [list |-> [i \in 1..Len(rs.list) |-> normalizeOne(rs.list[i])],
   stage |-> normalizeStage(rs.list, rs.stage, 1),
   conv |-> ~rs.changed,
   passes |-> rs.passes]
\* resolveOverlaps: [list, stage, conv, passes]; conv = the pass loop stopped early
resolveOverlaps(list, stage) == normalized(resolvePasses(list, stage, 0))

\* ------------------------------------------------------------ ChatCanvas.jsx: handlers
\* the threadId addMessage derives (lines 470-488); it reads messagesRef.current
threadIdFor(id, parentId, isThread) ==
  IF parentId # NoId
  THEN IF isThread
       THEN IF hasMsg(messagesRef, parentId) /\ findMsg(messagesRef, parentId).isThread
            THEN findMsg(messagesRef, parentId).threadId
            ELSE IF hasMsg(messagesRef, parentId) THEN parentId ELSE id
       ELSE getRootIdOf(messagesRef, parentId)
  ELSE id

\* the message addMessage appends (lines 490-496)
newMessage(id, parentId, isThread, user) ==
  [id |-> id, parentId |-> parentId, threadId |-> threadIdFor(id, parentId, isThread),
   isThread |-> isThread, user |-> user, x |-> Null, y |-> Null, ts |-> id, text |-> 0]

Quiet ==
  [op |-> "none", snap |-> <<>>, changed |-> FALSE, conv |-> FALSE, width |-> 0, passes |-> 0]

Init ==
  /\ messages = <<>>
  /\ messagesRef = <<>>
  /\ sizes = [i \in Ids |-> NoSize]
  /\ stageSize = [width |-> ViewportW, height |-> ViewportH]
  /\ stageSizeRef = [width |-> ViewportW, height |-> ViewportH]
  /\ rootCenters = [i \in Ids |-> Null]
  /\ mainTail = [i \in Ids |-> NoId]
  /\ nextId = 1
  /\ phase = "idle"
  /\ drag = [startId |-> NoId, isDragging |-> FALSE, draggedId |-> NoId]
  /\ raf = <<>>
  /\ drags = 0
  /\ run \in Runs
  /\ last = Quiet

\* handleNewChatSubmit (lines 504-519): a user root and its assistant reply.
\* The form is rendered only while the list is empty (line 852); the handler and
\* the placement effect have no such guard, and lists with several roots are what
\* loadState (lines 68-72) hands to a canvas that persisted sessions of that shape.
handleNewChatSubmit ==
  /\ phase # "sync"
  /\ nextId + 1 <= run.ids
  /\ messages' = messages \o <<newMessage(nextId, NoId, FALSE, TRUE),
                               newMessage(nextId + 1, nextId, FALSE, FALSE)>>
  /\ nextId' = nextId + 2
  /\ phase' = "sync"
  /\ last' = [Quiet EXCEPT !.op = "newChat"]
  /\ UNCHANGED <<messagesRef, sizes, stageSize, stageSizeRef, rootCenters, mainTail,
                 drag, raf, drags, run>>

replyPair(T, continueMain) ==
  <<newMessage(nextId, T, ~continueMain, TRUE), newMessage(nextId + 1, nextId, ~continueMain, FALSE)>>
\* handleReplyInThread (lines 542-568) on the bubble T that was clicked
handleReplyInThread(T) ==
  /\ phase # "sync"
  /\ nextId + 1 <= run.ids
  /\ hasMsg(messages, T) /\ isPlaced(findMsg(messages, T))
  /\ messages' = messages \o replyPair(T, T = getTailIdForRoot(messagesRef, getRootIdOf(messagesRef, T)))
  /\ nextId' = nextId + 2
  /\ phase' = "sync"
  /\ last' = [Quiet EXCEPT !.op = "reply"]
  /\ UNCHANGED <<messagesRef, sizes, stageSize, stageSizeRef, rootCenters, mainTail,
                 drag, raf, drags, run>>

\* the assistantId of every handler call so far: the second id of each pair
assistantIds == {id \in 1..(nextId - 1) : id % 2 = 0}
\* text of a message: 0 the placeholder "", 1 some streamed tokens, ErrorText
ErrorText == -1
streamedCount(list) == Cardinality({i \in 1..Len(list) : list[i].text # 0})
\* prev.map((m) => (m.id === assistantId ? { ...m, text } : m))
setText(list, id, text) ==
  [i \in 1..Len(list) |-> IF list[i].id = id THEN [list[i] EXCEPT !.text = text] ELSE list[i]]

\* onToken of a reply stream (lines 528-531, 577-580); the stream outlives the
\* message it writes to
onToken(id) ==
  /\ phase # "sync"
  /\ run.streamed > 0
  /\ id \in assistantIds
  /\ hasMsg(messages, id)
       => findMsg(messages, id).text = 0 /\ streamedCount(messages) < run.streamed
  /\ messages' = setText(messages, id, 1)
  /\ phase' = "scheduled"
  /\ last' = [Quiet EXCEPT !.op = "token"]
  /\ UNCHANGED <<messagesRef, sizes, stageSize, stageSizeRef, rootCenters, mainTail,
                 nextId, drag, raf, drags, run>>

\* onError of a reply stream (lines 535-537, 584-586)
onError(id) ==
  /\ phase # "sync"
  /\ run.streamed > 0
  /\ id \in assistantIds
  /\ hasMsg(messages, id)
       => \/ findMsg(messages, id).text = 1
          \/ findMsg(messages, id).text = 0 /\ streamedCount(messages) < run.streamed
  /\ messages' = setText(messages, id, ErrorText)
  /\ phase' = "scheduled"
  /\ last' = [Quiet EXCEPT !.op = "error"]
  /\ UNCHANGED <<messagesRef, sizes, stageSize, stageSizeRef, rootCenters, mainTail,
                 nextId, drag, raf, drags, run>>

\* the ResizeObserver callback of registerBubbleRef: the first measurement of a
\* mounted bubble
sizeObserved(id, sz) ==
  /\ phase # "sync"
  /\ hasMsg(messagesRef, id)
  /\ sizes[id] = NoSize
  /\ sz \in (IF findMsg(messagesRef, id).user THEN UserSizes ELSE AssistantSizes)
  /\ sizes' = [sizes EXCEPT ![id] = sz]
  /\ phase' = "scheduled"
  /\ last' = [Quiet EXCEPT !.op = "size"]
  /\ UNCHANGED <<messages, messagesRef, stageSize, stageSizeRef, rootCenters, mainTail,
                 nextId, drag, raf, drags, run>>

\* one render: the placement layout effect (lines 219-393), then the passive
\* effects that sync messagesRef and stageSizeRef to the rendered state (58-59)
commitPass(st) ==
  /\ messages' = IF st.changed THEN st.next ELSE messages
  /\ stageSize' = st.stage
  /\ rootCenters' = st.centers
  /\ mainTail' = IF st.changed THEN st.localTail ELSE st.tailRef
  /\ phase' = IF st.changed \/ st.stage # stageSize THEN "sync" ELSE "idle"
  /\ last' = [op |-> "render", snap |-> messagesRef, changed |-> st.changed, conv |-> FALSE,
              width |-> stageSizeRef.width, passes |-> 0]
render ==
  /\ phase # "idle"
  /\ commitPass(placementPass)
  /\ messagesRef' = messages
  /\ stageSizeRef' = stageSize
  /\ UNCHANGED <<sizes, nextId, drag, raf, drags, run>>

\* handleMouseDown (lines 591-604) on a placed bubble
handleMouseDown(id) ==
  /\ phase # "sync"
  /\ drags < run.drags
  /\ hasMsg(messages, id) /\ isPlaced(findMsg(messages, id))
  /\ hasMsg(messagesRef, id)
  /\ drag' = [drag EXCEPT !.startId = id]
  /\ drags' = drags + 1
  /\ last' = [Quiet EXCEPT !.op = "down"]
  /\ UNCHANGED <<messages, messagesRef, sizes, stageSize, stageSizeRef, rootCenters,
                 mainTail, nextId, phase, raf, run>>

setXY(list, id, nx, ny) ==
  [i \in 1..Len(list) |-> IF list[i].id = id THEN [list[i] EXCEPT !.x = nx, !.y = ny] ELSE list[i]]

\* handleMouseMove (lines 605-625); far = the pointer is past the 4 px threshold,
\* t = where the pointer puts the bubble (clientX - offset.x, clientY - offset.y)
handleMouseMove(far, t) ==
  /\ phase # "sync"
  /\ IF ~drag.isDragging
     THEN /\ drag.startId # NoId /\ far
          /\ drag' = [drag EXCEPT !.isDragging = TRUE, !.draggedId = drag.startId]
          /\ UNCHANGED messages
     ELSE /\ drag.draggedId # NoId
          /\ messages' = setXY(messages, drag.draggedId, t.x, t.y)
          /\ UNCHANGED drag
  /\ phase' = "sync"
  /\ last' = [Quiet EXCEPT !.op = "move"]
  /\ UNCHANGED <<messagesRef, sizes, stageSize, stageSizeRef, rootCenters, mainTail,
                 nextId, raf, drags, run>>

\* the coordinates handleMouseUp gives the dropped bubble (lines 632-642)
dropped(m) == [m EXCEPT !.x = snap(Max(m.x, EDGE_PADDING)), !.y = clampYNoBottom(m.y)]

\* handleMouseUp without line 630, if (!isDragging) return
handleMouseUpAlways ==
  /\ phase # "sync"
  /\ drag.startId # NoId \/ drag.isDragging
  /\ drag' = [startId |-> NoId, isDragging |-> FALSE, draggedId |-> NoId]
  /\ messages' = [i \in 1..Len(messages) |->
                    IF messages[i].id = drag.draggedId THEN dropped(messages[i])
                    ELSE messages[i]]
  /\ stageSize' =
       IF hasMsg(messages, drag.draggedId)
       THEN ensureBoth(stageSize, dropped(findMsg(messages, drag.draggedId)))
       ELSE stageSize
  /\ raf' = Append(raf, [kind |-> "pin", id |-> drag.draggedId])
  /\ phase' = "sync"
  /\ last' = [Quiet EXCEPT !.op = "up"]
  /\ UNCHANGED <<messagesRef, sizes, stageSizeRef, rootCenters, mainTail, nextId, drags,
                 run>>
\* handleMouseUp (lines 626-664), also the mouseleave handler
handleMouseUp ==
  /\ phase # "sync"
  /\ drag.startId # NoId \/ drag.isDragging
  /\ IF ~drag.isDragging
     THEN /\ drag' = [drag EXCEPT !.startId = NoId]
          /\ UNCHANGED <<messages, stageSize, raf, phase>>
     ELSE /\ drag' = [startId |-> NoId, isDragging |-> FALSE, draggedId |-> NoId]
          /\ messages' = [i \in 1..Len(messages) |->
                            IF messages[i].id = drag.draggedId THEN dropped(messages[i])
                            ELSE messages[i]]
          /\ stageSize' =
               IF hasMsg(messages, drag.draggedId)
               THEN ensureBoth(stageSize, dropped(findMsg(messages, drag.draggedId)))
               ELSE stageSize
          /\ raf' = Append(raf, [kind |-> "pin", id |-> drag.draggedId])
          /\ phase' = "sync"
  /\ last' = [Quiet EXCEPT !.op = "up"]
  /\ UNCHANGED <<messagesRef, sizes, stageSizeRef, rootCenters, mainTail, nextId, drags,
                 run>>

\* rafPin pinning the left edge of the dropped root, not its center
rafPinLeftEdge ==
  /\ phase # "sync"
  /\ Len(raf) > 0 /\ raf[1].kind = "pin"
  /\ rootCenters' =
       IF hasMsg(messagesRef, raf[1].id) /\ findMsg(messagesRef, raf[1].id).parentId = NoId
       THEN [rootCenters EXCEPT ![raf[1].id] = 2 * orZero(findMsg(messagesRef, raf[1].id).x)]
       ELSE rootCenters
  /\ raf' = Append(Tail(raf), [kind |-> "resolve", id |-> raf[1].id])
  /\ last' = [Quiet EXCEPT !.op = "pin"]
  /\ UNCHANGED <<messages, messagesRef, sizes, stageSize, stageSizeRef, mainTail, nextId,
                 phase, drag, drags, run>>
\* the outer requestAnimationFrame callback of handleMouseUp (lines 645-651)
rafPin ==
  /\ phase # "sync"
  /\ Len(raf) > 0 /\ raf[1].kind = "pin"
  /\ rootCenters' =
       IF hasMsg(messagesRef, raf[1].id) /\ findMsg(messagesRef, raf[1].id).parentId = NoId
       THEN [rootCenters EXCEPT ![raf[1].id] =
               2 * orZero(findMsg(messagesRef, raf[1].id).x) + sizeOr(raf[1].id).w]
       ELSE rootCenters
  /\ raf' = Append(Tail(raf), [kind |-> "resolve", id |-> raf[1].id])
  /\ last' = [Quiet EXCEPT !.op = "pin"]
  /\ UNCHANGED <<messages, messagesRef, sizes, stageSize, stageSizeRef, mainTail, nextId,
                 phase, drag, drags, run>>

commitResolve(r) ==
  /\ messages' = r.list
  /\ stageSize' = r.stage
  /\ last' = [op |-> "resolve", snap |-> messages, changed |-> r.list # messages,
              conv |-> r.conv, width |-> 0, passes |-> r.passes]
\* the inner requestAnimationFrame callback (lines 651-662): the resolver run
rafResolve ==
  /\ phase # "sync"
  /\ Len(raf) > 0 /\ raf[1].kind = "resolve"
  /\ commitResolve(resolveOverlaps(messages, stageSize))
  /\ raf' = Tail(raf)
  /\ phase' = "scheduled"
  /\ UNCHANGED <<messagesRef, sizes, stageSizeRef, rootCenters, mainTail, nextId, drag, drags,
                 run>>

\* updateStageSize (lines 142-154), run from requestAnimationFrame after the
\* messages or the sizes changed
RECURSIVE stageExtent(_, _, _)
stageExtent(list, acc, i) ==
  IF i > Len(list) THEN acc
  ELSE IF ~isPlaced(list[i]) THEN stageExtent(list, acc, i + 1)
  ELSE stageExtent(list,
         [width |-> Max(acc.width, list[i].x + sizeOr(list[i].id).w + GAP * 2),
          height |-> Max(acc.height, list[i].y + sizeOr(list[i].id).h + GAP * 2)],
         i + 1)
setStage(want) == want # stageSize /\ stageSize' = want
updateStageSize ==
  /\ phase # "sync"
  /\ setStage(stageExtent(messagesRef, [width |-> ViewportW, height |-> ViewportH], 1))
  /\ phase' = "scheduled"
  /\ last' = [Quiet EXCEPT !.op = "stage"]
  /\ UNCHANGED <<messages, messagesRef, sizes, stageSizeRef, rootCenters, mainTail, nextId,
                 drag, raf, drags, run>>

\* clearCanvas without line 671, messagesRef.current = []
clearCanvasKeepsRef ==
  /\ phase # "sync"
  /\ Len(messages) > 0
  /\ messages' = <<>>
  /\ stageSize' = [width |-> ViewportW, height |-> ViewportH]
  /\ rootCenters' = [i \in Ids |-> Null]
  /\ mainTail' = [i \in Ids |-> NoId]
  /\ phase' = "sync"
  /\ last' = [Quiet EXCEPT !.op = "clear"]
  /\ UNCHANGED <<messagesRef, sizes, stageSizeRef, nextId, drag, raf, drags, run>>
\* clearCanvas (lines 667-680)
clearCanvas ==
  /\ phase # "sync"
  /\ Len(messages) > 0
  /\ messages' = <<>>
  /\ messagesRef' = <<>>
  /\ stageSize' = [width |-> ViewportW, height |-> ViewportH]
  /\ rootCenters' = [i \in Ids |-> Null]
  /\ mainTail' = [i \in Ids |-> NoId]
  /\ phase' = "sync"
  /\ last' = [Quiet EXCEPT !.op = "clear"]
  /\ UNCHANGED <<sizes, stageSizeRef, nextId, drag, raf, drags, run>>

Next ==
  \/ handleNewChatSubmit
  \/ \E T \in Ids : handleReplyInThread(T)
  \/ \E id \in Ids : onToken(id)
  \/ \E id \in Ids : onError(id)
  \/ \E id \in Ids, sz \in UserSizes \cup AssistantSizes : sizeObserved(id, sz)
  \/ render
  \/ \E id \in Ids : handleMouseDown(id)
  \/ \E far \in BOOLEAN, t \in DragTargets : handleMouseMove(far, t)
  \/ handleMouseUp
  \/ rafPin
  \/ rafResolve
  \/ updateStageSize
  \/ clearCanvas

Spec == Init /\ [][Next]_vars

\* The shorter runs, with fairness.
\* A render that React has scheduled is eventually performed, and with it the
\* layout effect, which has no dependency list (line 219) and runs on every render.
\* This is WF_vars(render) written out: render is enabled exactly when a render
\* is pending (phase # "idle"), and a render step always changes phase, messages
\* or stageSize.
InitFair == Init /\ run.ids < MaxIds
SpecFair ==
  InitFair /\ [][Next]_vars /\ ([]<>(phase = "idle") \/ []<><<render>>_vars)

\* The runs with a drag, with fairness: a scheduled render is eventually
\* performed, and a callback handed to requestAnimationFrame (lines 645, 651) is
\* called at the next frame, however many input events arrive.  The second
\* condition is SF_vars(rafPin \/ rafResolve) written out: a callback can run
\* when one is queued and no render is under way, and pointer events that keep
\* scheduling renders do not hold it back for ever.
InitRelease == Init /\ run.drags > 0
NextRelease ==
  \/ handleNewChatSubmit
  \/ \E T \in Ids : handleReplyInThread(T)
  \/ \E id \in Ids, sz \in UserSizes \cup AssistantSizes : sizeObserved(id, sz)
  \/ render
  \/ \E id \in Ids : handleMouseDown(id)
  \/ \E far \in BOOLEAN, t \in DragTargets : handleMouseMove(far, t)
  \/ handleMouseUp
  \/ rafPin
  \/ rafResolve
  \/ updateStageSize
  \/ clearCanvas
SpecRelease ==
  /\ InitRelease /\ [][NextRelease]_vars
  /\ ([]<>(phase = "idle") \/ []<><<render>>_vars)
  /\ (<>[](Len(raf) = 0 \/ phase = "sync") \/ []<><<rafPin \/ rafResolve>>_vars)

\* A canvas on which a root P (id 1) has its main-chain reply (2) and two thread
\* branches (3 and 5, with their replies 4 and 6) placed, by passes or by drags,
\* and a third branch off P (7, with its reply 8) has just been submitted: the
\* bubbles 7 and 8 are measured and placed.  The second branch may be as new as
\* the third (x5 = Null): not measured, not placed.
msg(id, parentId, threadId, isThread, user, x, y) ==
  [id |-> id, parentId |-> parentId, threadId |-> threadId, isThread |-> isThread,
   user |-> user, x |-> x, y |-> y, ts |-> id, text |-> 0]
\* where the branches 3 and 5 may be: left of P, right of P, in P's column
BranchXs == {240, 620, 980}
branchList(w, x3, x5) ==
  << msg(1, NoId, 1, FALSE, TRUE, snap((ViewportW - w + 1) \div 2), snap(EDGE_PADDING)),
     msg(2, 1, 1, FALSE, FALSE, 580, 260),
     msg(3, 1, 1, TRUE, TRUE, x3, 460),
     msg(4, 3, 4, TRUE, FALSE, x3, 580),
     msg(5, 1, 1, TRUE, TRUE, x5, IF x5 = Null THEN Null ELSE 780),
     msg(6, 5, 6, TRUE, FALSE, x5, IF x5 = Null THEN Null ELSE 900),
     msg(7, 1, 1, TRUE, TRUE, Null, Null),
     msg(8, 7, 8, TRUE, FALSE, Null, Null) >>
branchSizes(rootSize, x5) ==
  [i \in 1..8 |->
     IF i = 1 THEN rootSize
     ELSE IF i > 6 \/ (i > 4 /\ x5 = Null) THEN NoSize
     ELSE IF i % 2 = 0 THEN [w |-> 250, h |-> 119] ELSE [w |-> 170, h |-> 59]]
InitBranch ==
  /\ \E rootSize \in UserSizes, x3 \in BranchXs, x5 \in BranchXs \cup {Null} :
       /\ messages = branchList(rootSize.w, x3, x5)
       /\ sizes = branchSizes(rootSize, x5)
  /\ messagesRef = messages
  /\ stageSize = stageExtent(messages, [width |-> ViewportW, height |-> ViewportH], 1)
  /\ stageSizeRef = stageSize
  /\ rootCenters = [i \in 1..8 |-> IF i = 1 THEN centerOf(getRectFor(messages[1])) ELSE Null]
  /\ mainTail = [i \in 1..8 |-> IF i = 1 THEN 2 ELSE NoId]
  /\ nextId = 9
  /\ phase = "idle"
  /\ drag = [startId |-> NoId, isDragging |-> FALSE, draggedId |-> NoId]
  /\ raf = <<>>
  /\ drags = 0
  /\ run = [ids |-> 8, drags |-> 0, streamed |-> 0]
  /\ last = Quiet
NextBranch ==
  \/ \E id \in 5..8, sz \in UserSizes \cup AssistantSizes : sizeObserved(id, sz)
  \/ render
SpecBranch == InitBranch /\ [][NextBranch]_vars

\* A canvas on which the three children of a root (its main-chain reply 2 and the
\* branches 3 and 5) have been dragged next to each other: 3 and 5 on one row,
\* and 2, the bubble just dropped, on or near that row.  The drop has been
\* rendered and pinned; the resolver run of that drop is pending, and a reply
\* may be submitted and measured before or after it runs.
\* The off-grid coordinates are those of the pointer: a placement pass that ran
\* after the drop committed the list of the render before it (line 387).
DropXs == {33, 200, 240, 280, 320, 360, 400, 440, 480, 520, 560}
DropYs == {300, 311, 320}
NeighbourXs == {500, 560, 620}
droppedList(w, xB, yB, xA) ==
  << msg(1, NoId, 1, FALSE, TRUE, snap((ViewportW - w + 1) \div 2), snap(EDGE_PADDING)),
     msg(2, 1, 1, FALSE, FALSE, xB, yB),
     msg(3, 1, 1, TRUE, TRUE, 240, 300),
     msg(4, 3, 4, TRUE, FALSE, 240, 600),
     msg(5, 1, 1, TRUE, TRUE, xA, 300),
     msg(6, 5, 6, TRUE, FALSE, xA, 800) >>
droppedSizes(rootSize) ==
  [i \in 1..8 |->
     IF i = 1 THEN rootSize
     ELSE IF i > 6 THEN NoSize
     ELSE IF i % 2 = 0 THEN [w |-> 250, h |-> 119] ELSE [w |-> 170, h |-> 59]]
InitDropped ==
  /\ \E rootSize \in UserSizes, xB \in DropXs, yB \in DropYs, xA \in NeighbourXs :
       /\ messages = droppedList(rootSize.w, xB, yB, xA)
       /\ sizes = droppedSizes(rootSize)
  /\ messagesRef = messages
  /\ stageSize = stageExtent(messages, [width |-> ViewportW, height |-> ViewportH], 1)
  /\ stageSizeRef = stageSize
  /\ rootCenters = [i \in 1..8 |-> IF i = 1 THEN centerOf(getRectFor(messages[1])) ELSE Null]
  /\ mainTail = [i \in 1..8 |-> IF i = 1 THEN 2 ELSE NoId]
  /\ nextId = 7
  /\ phase = "idle"
  /\ drag = [startId |-> NoId, isDragging |-> FALSE, draggedId |-> NoId]
  /\ raf = <<[kind |-> "resolve", id |-> 2]>>
  /\ drags = 3
  /\ run = [ids |-> 8, drags |-> 3, streamed |-> 0]
  /\ last = [Quiet EXCEPT !.op = "pin"]
NextDropped ==
  \/ rafResolve
  \/ \E T \in 1..6 : handleReplyInThread(T)
  \/ \E id \in 7..8, sz \in UserSizes \cup AssistantSizes : sizeObserved(id, sz)
  \/ render
SpecDropped == InitDropped /\ [][NextDropped]_vars

\* A crowded canvas: root 1 at the left edge with its main-chain reply 2 below
\* it, the branch 3 with a very long reply 4 dragged below 2, and CrowdPairs
\* more branches of the root dragged side by side onto the root's row, each
\* with a very long reply right below it.  Bubbles are at most 20rem wide
\* (Bubble.jsx) but as high as their text, so the column below 2 and the
\* columns right of the root are taken for more than MAX_DROP rows and more
\* than MAX_SCAN columns.  No two bubbles overlap, so the resolver leaves the
\* arrangement alone.  The stage has grown to hold the rightmost and the lowest
\* bubble (updateStageSize).
HugeH == 20000
CrowdPairs == 22
CrowdIds == 4 + 2 * CrowdPairs
crowdedMsg(i) ==
  IF i = 1 THEN msg(1, NoId, 1, FALSE, TRUE, snap(EDGE_PADDING), snap(EDGE_PADDING))
  ELSE IF i = 2 THEN msg(2, 1, 1, FALSE, FALSE, 80, 200)
  ELSE IF i = 3 THEN msg(3, 1, 1, TRUE, TRUE, 80, 400)
  ELSE IF i = 4 THEN msg(4, 3, 4, TRUE, FALSE, 80, 520)
  ELSE IF i % 2 = 1 THEN msg(i, 1, 1, TRUE, TRUE, 380 + 500 * ((i - 5) \div 2), 80)
  ELSE msg(i, i - 1, i, TRUE, FALSE, 380 + 500 * ((i - 6) \div 2), 200)
crowdedSizes(rootSize) ==
  [i \in 1..(CrowdIds + 2) |->
     IF i = 1 THEN rootSize
     ELSE IF i > CrowdIds THEN NoSize
     ELSE IF i = 2 THEN [w |-> 250, h |-> 119]
     ELSE IF i % 2 = 0 THEN [w |-> 250, h |-> HugeH] ELSE [w |-> 170, h |-> 59]]
InitCrowded ==
  /\ messages = [i \in 1..CrowdIds |-> crowdedMsg(i)]
  /\ \E rootSize \in UserSizes : sizes = crowdedSizes(rootSize)
  /\ messagesRef = messages
  /\ stageSize = [width |-> crowdedMsg(CrowdIds).x + 250 + GAP * 2,
                  height |-> 520 + HugeH + GAP * 2]
  /\ stageSizeRef = stageSize
  /\ rootCenters = [i \in 1..(CrowdIds + 2) |->
                      IF i = 1 THEN centerOf(getRectFor(messages[1])) ELSE Null]
  /\ mainTail = [i \in 1..(CrowdIds + 2) |-> IF i = 1 THEN 2 ELSE NoId]
  /\ nextId = CrowdIds + 1
  /\ phase = "idle"
  /\ drag = [startId |-> NoId, isDragging |-> FALSE, draggedId |-> NoId]
  /\ raf = <<>>
  /\ drags = 0
  /\ run = [ids |-> CrowdIds + 2, drags |-> 0, streamed |-> 0]
  /\ last = Quiet
NextCrowded ==
  \/ \E T \in 1..4 : handleReplyInThread(T)
  \/ \E id \in (CrowdIds + 1)..(CrowdIds + 2), sz \in UserSizes \cup AssistantSizes :
       sizeObserved(id, sz)
  \/ render
SpecCrowded == InitCrowded /\ [][NextCrowded]_vars

\* A canvas on which the thread branch 5 of root 1 has been dropped on or next
\* to its sibling branch 3; the resolver run of the drop is pending.  The stage
\* is as wide as the window was when the canvas mounted (line 23), NarrowW or
\* ViewportW; where it is NarrowW the window has been widened since, and the
\* stage update of that resize (lines 155-158) is pending too.
NarrowW == 400
SideXs == {80, 100, 120, 240, 260, 300, 380}
SideYs == {160, 180}
sidewaysList(W, xA, xB, yB) ==
  << msg(1, NoId, 1, FALSE, TRUE, snap((W - 170 + 1) \div 2), snap(EDGE_PADDING)),
     msg(2, 1, 1, FALSE, FALSE, 80, 300),
     msg(3, 1, 1, TRUE, TRUE, xA, 160),
     msg(4, 3, 4, TRUE, FALSE, 80, 460),
     msg(5, 1, 1, TRUE, TRUE, xB, yB),
     msg(6, 5, 6, TRUE, FALSE, 80, 620) >>
InitSideways ==
  /\ \E W \in {NarrowW, ViewportW}, xA \in SideXs, xB \in SideXs, yB \in SideYs :
       /\ messages = sidewaysList(W, xA, xB, yB)
       /\ stageSize = [width |-> W, height |-> ViewportH]
  /\ sizes = [i \in Ids |-> IF i % 2 = 0 THEN [w |-> 250, h |-> 119] ELSE [w |-> 170, h |-> 59]]
  /\ messagesRef = messages
  /\ stageSizeRef = stageSize
  /\ rootCenters = [i \in Ids |-> IF i = 1 THEN centerOf(getRectFor(messages[1])) ELSE Null]
  /\ mainTail = [i \in Ids |-> IF i = 1 THEN 2 ELSE NoId]
  /\ nextId = 7
  /\ phase = "idle"
  /\ drag = [startId |-> NoId, isDragging |-> FALSE, draggedId |-> NoId]
  /\ raf = <<[kind |-> "resolve", id |-> 5]>>
  /\ drags = 1
  /\ run = [ids |-> 6, drags |-> 1, streamed |-> 0]
  /\ last = [Quiet EXCEPT !.op = "pin"]
NextSideways ==
  \/ rafResolve
  \/ updateStageSize
  \/ render
SpecSideways == InitSideways /\ [][NextSideways]_vars

\* ------------------------------------------------------------ properties
Idx == 1..Len(messages)
passRan == last.op = "render"
\* the last step was a placement pass that committed (setMessages(next))
committed == passRan /\ last.changed
\* the last pass placed messages[i]: unplaced in the snapshot it read, placed now
placedByPass(i) == committed /\ isPlaced(messages[i]) /\ ~isPlaced(last.snap[i])
isRoot(m) == m.parentId = NoId
mainChild(m) == m.parentId # NoId /\ ~m.isThread
\* the pinned center (doubled) of the root of m
pinOf(m) == rootCenters[getRootIdOf(messages, m.id)]
\* a rectangle grown by PADDING on every side
expanded(r) ==
  [x |-> r.x - PADDING, y |-> r.y - PADDING, w |-> r.w + 2 * PADDING, h |-> r.h + 2 * PADDING]
paddedOverlap(a, b) == rectsOverlapPx(expanded(getRectFor(a)), expanded(getRectFor(b)))
noPaddedOverlap(list) ==
  \A i, j \in 1..Len(list) :
     i < j /\ isPlaced(list[i]) /\ isPlaced(list[j]) => ~paddedOverlap(list[i], list[j])
onGrid(m) == m.x % GRID = 0 /\ m.y % GRID = 0

\* C1 as stated: a main-chain message placed by a pass has its center exactly on
\* the pinned center of its root (x + w/2 == C)
C1_CenterOnPin ==
  \A i \in Idx :
     placedByPass(i) /\ mainChild(messages[i])
       => centerOf(getRectFor(messages[i])) = pinOf(messages[i])

\* C1 amended: a main-chain message placed by a pass has its left edge on the grid
\* line at or next left of C - w/2, never left of EDGE_PADDING, so that its
\* center is in (C - GRID, C] unless the left edge was clamped
C1_LeftEdgeOnGridLeftOfPin ==
  \A i \in Idx :
     placedByPass(i) /\ mainChild(messages[i])
       => messages[i].x =
            Max(EDGE_PADDING,
                GRID * ((pinOf(messages[i]) - sizes[messages[i].id].w) \div (2 * GRID)))

\* a pass placed a main-chain message two levels or more under its root, with a
\* thread branch placed on the canvas, and its center is off the pin
C1_Witness ==
  \E i \in Idx :
     /\ placedByPass(i) /\ mainChild(messages[i])
     /\ ~isRoot(findMsg(messages, messages[i].parentId))
     /\ \E j \in Idx : messages[j].isThread /\ isPlaced(messages[j])
     /\ centerOf(getRectFor(messages[i])) # pinOf(messages[i])

\* C2: after a placement pass of a run without drags no two placed messages'
\* rectangles, each expanded by PADDING, intersect
C2_NoPaddedOverlapAfterPass ==
  passRan /\ drags = 0 => noPaddedOverlap(messages)

\* C3: when resolveOverlaps returns after stopping early, no two placed messages'
\* rectangles, each expanded by PADDING, intersect in the returned list
C3_NoPaddedOverlapAfterResolve ==
  last.op = "resolve" /\ last.conv => noPaddedOverlap(messages)

\* C4: after a placement pass, a drag release or a resolver run, every placed
\* message that is not being dragged has x and y that are multiples of GRID
C4_GridAligned ==
  last.op \in {"render", "up", "resolve"}
    => \A i \in Idx :
          isPlaced(messages[i]) /\ ~(drag.isDragging /\ drag.draggedId = messages[i].id)
            => onGrid(messages[i])


\* C5: a placement pass leaves the coordinates of every message placed in the
\* list it reads as they are, and on a list with every message placed it issues
\* no commit and leaves the root-center and main-tail tables alone
C5_PassKeepsPlaced ==
  [][ last'.op = "render"
        => /\ last'.changed
              => \A i \in 1..Len(messagesRef) :
                    isPlaced(messagesRef[i])
                      => /\ messages'[i].x = messagesRef[i].x
                         /\ messages'[i].y = messagesRef[i].y
           /\ (\A i \in 1..Len(messagesRef) : isPlaced(messagesRef[i]))
              => /\ ~last'.changed
                 /\ messages' = messages
                 /\ rootCenters' = rootCenters
                 /\ mainTail' = mainTail ]_vars

\* a pass ran on a list of several messages, all of them placed
C5_Witness ==
  /\ passRan /\ ~last.changed
  /\ Len(last.snap) >= 4
  /\ \A i \in 1..Len(last.snap) : isPlaced(last.snap[i])

\* C6: every placed message with a parent has a placed parent
C6_ParentPlaced ==
  \A i \in Idx :
     isPlaced(messages[i]) /\ ~isRoot(messages[i])
       => /\ hasMsg(messages, messages[i].parentId)
          /\ isPlaced(findMsg(messages, messages[i].parentId))

\* a child is placed under a parent that has been dragged and resolved
C6_Witness ==
  /\ last.op = "resolve"
  /\ \E i \in Idx : isPlaced(messages[i]) /\ ~isRoot(messages[i])
  /\ \E i \in Idx : ~isPlaced(messages[i])

\* is the message ready in the list the pass read: unplaced, measured, and a root
\* or the child of a message placed in that list
readyIn(list, m) ==
  /\ ~isPlaced(m)
  /\ sizes[m.id] # NoSize
  /\ isRoot(m) \/ (hasMsg(list, m.parentId) /\ isPlaced(findMsg(list, m.parentId)))

\* C8: a pass gives no coordinates to a message without a size, and places every
\* ready message of the list it read
C8_MissingSizeSkipped ==
  passRan
    => \A i \in 1..Len(last.snap) :
          /\ ~isPlaced(last.snap[i]) /\ sizes[last.snap[i].id] = NoSize
               => ~(last.changed /\ isPlaced(messages[i]))
          /\ readyIn(last.snap, last.snap[i])
               => last.changed /\ isPlaced(messages[i])

\* a pass skipped a message without a size and placed one later in the list
C8_Witness ==
  \E i, j \in Idx :
     /\ i < j /\ committed
     /\ ~isPlaced(messages[i]) /\ sizes[messages[i].id] = NoSize
     /\ placedByPass(j)

\* the size of the message and of every ancestor is known
RECURSIVE measuredUp(_, _, _)
measuredUp(list, m, fuel) ==
  /\ sizes[m.id] # NoSize
  /\ \/ isRoot(m)
     \/ /\ fuel > 0
        /\ hasMsg(list, m.parentId)
        /\ measuredUp(list, findMsg(list, m.parentId), fuel - 1)
measured(id) == hasMsg(messages, id) /\ measuredUp(messages, findMsg(messages, id), Len(messages))
placedOrGone(id) == ~hasMsg(messages, id) \/ isPlaced(findMsg(messages, id))

\* C7: with every scheduled render performed, a message whose size and whose
\* ancestors' sizes are known is eventually placed (or the canvas cleared); a
\* placed message stays placed while it is in the list; and when no render is
\* pending no message is left that a pass would place
C7_EventuallyPlaced ==
  /\ \A id \in 1..DragIds : measured(id) ~> placedOrGone(id)
  /\ [][\A i \in Idx :
          isPlaced(messages[i]) /\ hasMsg(messages', messages[i].id)
            => isPlaced(findMsg(messages', messages[i].id))]_vars
  /\ [](phase = "idle" => \A i \in Idx : ~readyIn(messages, messages[i]))

\* under a placed message, a message and its child, neither placed, both measured
C7_Witness ==
  \E i, j, k \in Idx :
     /\ messages[j].parentId = messages[i].id /\ messages[k].parentId = messages[j].id
     /\ isPlaced(messages[i]) /\ ~isPlaced(messages[j]) /\ ~isPlaced(messages[k])
     /\ measured(messages[k].id)

\* the roots the root branch sees as placed when it places messages[i]
priorRoots(i) ==
  {j \in Idx \ {i} :
     isRoot(messages[j]) /\ isPlaced(messages[j]) /\ (isPlaced(last.snap[j]) \/ j < i)}

\* C9 as stated: a root placed after another root, without drags, has
\* y >= R1.y + R1.h + GAP
C9_BelowByGap ==
  \A i \in Idx :
     placedByPass(i) /\ isRoot(messages[i]) /\ drags = 0
       => \A j \in priorRoots(i) :
             messages[i].y >= messages[j].y + getRectFor(messages[j]).h + GAP

\* C9 amended: the y of the later root is R1.y + R1.h + GAP rounded to the nearest
\* multiple of GRID, so it can be up to GRID/2 less: y >= R1.y + R1.h + GAP - GRID/2
C9_BelowByGapToGrid ==
  \A i \in Idx :
     placedByPass(i) /\ isRoot(messages[i]) /\ drags = 0
       => /\ \A j \in priorRoots(i) :
               2 * messages[i].y >= 2 * (messages[j].y + getRectFor(messages[j]).h + GAP) - GRID
          /\ priorRoots(i) # {}
               => \E j \in priorRoots(i) :
                     messages[i].y = snap(messages[j].y + getRectFor(messages[j]).h + GAP)

\* a second root was placed less than GAP below the first
C9_Witness ==
  \E i \in Idx :
     /\ placedByPass(i) /\ isRoot(messages[i]) /\ drags = 0
     /\ \E j \in priorRoots(i) :
           messages[i].y < messages[j].y + getRectFor(messages[j]).h + GAP

\* C10 as stated: a root placed after another root, without drags, has the same
\* horizontal center
C10_SameCenter ==
  \A i \in Idx :
     placedByPass(i) /\ isRoot(messages[i]) /\ drags = 0
       => \A j \in priorRoots(i) :
             centerOf(getRectFor(messages[i])) = centerOf(getRectFor(messages[j]))

\* C10 amended: every root is placed with its left edge on the grid line nearest
\* to (W - w)/2, W the stage width the pass reads, so its center is within
\* GRID/2 + 1/2 px of W/2; two roots' centers agree only up to that rounding
C10_CenteredToGrid ==
  \A i \in Idx :
     placedByPass(i) /\ isRoot(messages[i]) /\ drags = 0
       => /\ messages[i].x % GRID = 0
          /\ Abs(centerOf(getRectFor(messages[i])) - last.width) <= GRID + 1

\* a second root of another width was placed with another center than the first
C10_Witness ==
  \E i \in Idx :
     /\ placedByPass(i) /\ isRoot(messages[i]) /\ drags = 0
     /\ \E j \in priorRoots(i) :
           /\ sizes[messages[i].id].w # sizes[messages[j].id].w
           /\ centerOf(getRectFor(messages[i])) # centerOf(getRectFor(messages[j]))

\* the placed children of P, other than m, in the list a pass reads, whose center
\* is left of P's center (left = TRUE) or not (left = FALSE)
childrenOn(P, m, left) ==
  {j \in 1..Len(messagesRef) :
     /\ messagesRef[j].parentId = P.id /\ isPlaced(messagesRef[j]) /\ messagesRef[j].id # m.id
     /\ (centerOf(getRectFor(messagesRef[j])) < centerOf(getRectFor(P))) = left}
\* m is a user message that starts a branch off a placed non-thread parent, not yet placed
startsBranch(list, m) ==
  /\ m.isThread /\ m.user /\ ~isPlaced(m)
  /\ hasMsg(list, m.parentId)
  /\ isPlaced(findMsg(list, m.parentId)) /\ ~findMsg(list, m.parentId).isThread
fewerSide(P, m) ==
  IF Cardinality(childrenOn(P, m, FALSE)) < Cardinality(childrenOn(P, m, TRUE))
  THEN "right" ELSE "left"

\* C11: the side preferred for a user message that starts a branch off a non-thread
\* parent P is the side of P with fewer placed children of P; equal counts give left
C11_PreferFewerSide ==
  \A i \in 1..Len(messagesRef) :
     startsBranch(messagesRef, messagesRef[i])
       => preferSideFor(messagesRef[i], getRectFor(findMsg(messagesRef, messagesRef[i].parentId)))
            = fewerSide(findMsg(messagesRef, messagesRef[i].parentId), messagesRef[i])

\* a pass placed a new branch on the right of a parent that had two children on
\* its left and one on its right
C11_Witness ==
  \E i \in Idx :
     /\ placedByPass(i) /\ startsBranch(last.snap, last.snap[i])
     /\ Cardinality(childrenOn(findMsg(messages, messages[i].parentId), messages[i], TRUE)) = 2
     /\ Cardinality(childrenOn(findMsg(messages, messages[i].parentId), messages[i], FALSE)) = 1
     /\ messages[i].x >= getRectFor(findMsg(messages, messages[i].parentId)).x
                           + getRectFor(findMsg(messages, messages[i].parentId)).w

\* messages[i] is the first main-chain reply to a root, placed by the last pass of
\* a run without drags, with that root the only message placed in the list read
firstReplyPlaced(i) ==
  /\ placedByPass(i) /\ mainChild(messages[i]) /\ drags = 0
  /\ hasMsg(last.snap, messages[i].parentId)
  /\ isRoot(findMsg(last.snap, messages[i].parentId))
  /\ \A j \in 1..Len(last.snap) :
        isPlaced(last.snap[j]) => last.snap[j].id = messages[i].parentId

\* C12 as stated: with only a root placed, its first main-chain reply is placed at
\* y = root.y + root.h + GAP
C12_ReplyAtGap ==
  \A i \in Idx :
     firstReplyPlaced(i)
       => messages[i].y = getRectFor(findMsg(messages, messages[i].parentId)).y
                            + getRectFor(findMsg(messages, messages[i].parentId)).h + GAP

\* C12 amended: the reply is placed on the first grid row below the root's padded
\* occupancy rectangle, y = root.y + GRID * (ceil((root.h + PADDING) / GRID) + 2 * padCells),
\* which is 4 to 23 px more than root.y + root.h + GAP
C12_ReplyBelowOccupancy ==
  \A i \in Idx :
     firstReplyPlaced(i)
       => /\ messages[i].y =
               getRectFor(findMsg(messages, messages[i].parentId)).y
                 + GRID * (spanOf(getRectFor(findMsg(messages, messages[i].parentId)).h)
                           + 2 * padCells)
          /\ messages[i].y - (getRectFor(findMsg(messages, messages[i].parentId)).y
                              + getRectFor(findMsg(messages, messages[i].parentId)).h + GAP)
               \in 4..23

\* the first reply to a root of height 59 was placed with only the root placed
C12_Witness ==
  \E i \in Idx :
     /\ firstReplyPlaced(i)
     /\ sizes[messages[i].parentId].h = 59

\* the last pass placed messages[i], a user message that starts a branch off a
\* non-thread parent that is on the grid in the list the pass read
branchPlaced(i) ==
  /\ placedByPass(i) /\ startsBranch(last.snap, last.snap[i])
  /\ onGrid(findMsg(last.snap, messages[i].parentId))
\* rectangle a is entirely left of rectangle b
leftOf(a, b) == a.x + a.w <= b.x

\* C13: a user message that starts a branch off a placed, grid-aligned non-thread
\* parent is placed on the parent's row, entirely left or entirely right of the
\* parent's rectangle
C13_BesideParentOnRow ==
  \A i \in Idx :
     branchPlaced(i)
       => /\ messages[i].y = findMsg(last.snap, messages[i].parentId).y
          /\ \/ leftOf(getRectFor(messages[i]),
                       getRectFor(findMsg(last.snap, messages[i].parentId)))
             \/ leftOf(getRectFor(findMsg(last.snap, messages[i].parentId)),
                       getRectFor(messages[i]))

\* a pass placed a second branch off a parent that already had a branch placed on
\* its row
C13_Witness ==
  \E i, j \in Idx :
     /\ branchPlaced(i)
     /\ i # j /\ messages[j].isThread /\ messages[j].parentId = messages[i].parentId
     /\ isPlaced(last.snap[j]) /\ last.snap[j].y = messages[i].y

\* the last pass placed messages[i], a thread message that follows inside a branch
\* (its parent is a thread message, or it is an assistant's), under a parent
\* whose x is on the grid in the list the pass read
followerPlaced(i) ==
  /\ placedByPass(i) /\ messages[i].isThread
  /\ hasMsg(last.snap, messages[i].parentId)
  /\ findMsg(last.snap, messages[i].parentId).isThread \/ ~messages[i].user
  /\ findMsg(last.snap, messages[i].parentId).x % GRID = 0

\* C14: a thread message whose parent is a thread message, and an assistant's
\* thread message, is placed at the x of its parent with its top below the
\* parent's bottom edge
C14_ThreadColumn ==
  \A i \in Idx :
     followerPlaced(i)
       => /\ messages[i].x = findMsg(last.snap, messages[i].parentId).x
          /\ messages[i].y >= findMsg(last.snap, messages[i].parentId).y
                                + getRectFor(findMsg(last.snap, messages[i].parentId)).h

\* a pass placed a reply inside a branch whose parent is not in its root's column,
\* with a bubble of another width than the parent's
C14_Witness ==
  \E i \in Idx :
     /\ followerPlaced(i)
     /\ getRectFor(messages[i]).w # getRectFor(findMsg(messages, messages[i].parentId)).w
     /\ centerOf(getRectFor(findMsg(messages, messages[i].parentId))) # pinOf(messages[i])

\* the fields of a message that are fixed at creation
sameIdentity(a, b) ==
  /\ a.id = b.id /\ a.parentId = b.parentId
  /\ a.threadId = b.threadId /\ a.isThread = b.isThread
\* C15_IdentityKept: no step changes the id, parentId, threadId or isThread of a
\* message that stays in the list (the first half of C15)
C15_IdentityKept ==
  [][\A i \in Idx :
        hasMsg(messages', messages[i].id)
          => sameIdentity(findMsg(messages', messages[i].id), messages[i])]_vars

\* C15: no step changes the id, parentId, threadId or isThread of a message; a
\* placement pass, a drag move, a drag release and a resolver run change nothing
\* of a message but x and y, and a streamed token nothing but text
C15_OnlyCoordinatesOrText ==
  [][\A i \in Idx :
        hasMsg(messages', messages[i].id)
          => /\ sameIdentity(findMsg(messages', messages[i].id), messages[i])
             /\ last'.op \in {"render", "move", "up", "resolve"}
                  => findMsg(messages', messages[i].id)
                       = [messages[i] EXCEPT !.x = findMsg(messages', messages[i].id).x,
                                             !.y = findMsg(messages', messages[i].id).y]
             /\ last'.op \in {"token", "error"}
                  => findMsg(messages', messages[i].id)
                       = [messages[i] EXCEPT !.text = findMsg(messages', messages[i].id).text]]_vars

\* C16: but for clearCanvas, no step makes the stage width or the stage height
\* smaller
C16_StageNeverShrinks ==
  [][last'.op # "clear"
       => /\ stageSize'.width >= stageSize.width
          /\ stageSize'.height >= stageSize.height]_vars

\* the message list and the two per-root tables are empty
cleared ==
  /\ messages = <<>>
  /\ \A i \in DOMAIN rootCenters : rootCenters[i] = Null
  /\ \A i \in DOMAIN mainTail : mainTail[i] = NoId

\* C17: clearCanvas leaves the message list, the root-center table and the
\* main-tail table empty, and they stay empty under every step that is not a
\* handler calling addMessage
C17_StaysCleared ==
  [][/\ last'.op = "clear" => cleared'
     /\ cleared /\ last'.op \notin {"newChat", "reply"} => cleared']_vars

\* the deferred resolver of a drag released before the clear has run on the
\* cleared canvas
C17_Witness ==
  /\ cleared /\ nextId > 1
  /\ last.op = "resolve"

\* C18: in the list resolveOverlaps returns every placed message has x and y on
\* the grid and at least EDGE_PADDING, whether the pass loop stopped early or ran
\* all its passes, and the messages that were unplaced are returned unplaced
C18_ResolvedNormalized ==
  last.op = "resolve"
    => /\ \A i \in Idx :
             isPlaced(messages[i])
               => /\ onGrid(messages[i])
                  /\ messages[i].x >= EDGE_PADDING /\ messages[i].y >= EDGE_PADDING
       /\ idsOf(messages) = idsOf(last.snap)
       /\ \A i \in Idx :
             isPlaced(messages[i]) = isPlaced(findMsg(last.snap, messages[i].id))

\* the resolver returned after all its passes, the last one still moving a
\* bubble, on a list with unplaced messages and a bubble that was off the grid
C18_Witness ==
  /\ last.op = "resolve" /\ ~last.conv
  /\ \E i \in Idx : ~isPlaced(messages[i])
  /\ \E i \in 1..Len(last.snap) : isPlaced(last.snap[i]) /\ ~onGrid(last.snap[i])

\* one pass of the resolver over a list
passOnce(list) ==
  resolveLoop([list |-> sortByYX(list, <<>>, 1), stage |-> stageSize, changed |-> FALSE], 1, 2)
\* [n, quiet]: n is the number of the first pass over the list that changes
\* nothing, or bound if each of the first bound passes changes something; quiet
\* tells whether pass n changed nothing
RECURSIVE firstQuiet(_, _, _)
RECURSIVE quietOr(_, _, _)
firstQuiet(list, k, bound) == quietOr(passOnce(list), k, bound)
quietOr(r, k, bound) ==
  IF ~r.changed THEN [n |-> k, quiet |-> TRUE]
  ELSE IF k >= bound THEN [n |-> k, quiet |-> FALSE]
  ELSE firstQuiet(r.list, k + 1, bound)
\* following parentId from id ends, at a root or at a missing message, within fuel steps
RECURSIVE walkEnds(_, _, _)
walkEnds(list, id, fuel) ==
  IF ~hasMsg(list, id) THEN TRUE
  ELSE IF findMsg(list, id).parentId = NoId THEN TRUE
  ELSE fuel > 0 /\ walkEnds(list, findMsg(list, id).parentId, fuel - 1)
acyclic(list) == \A i \in 1..Len(list) : walkEnds(list, list[i].id, Len(list))
RECURSIVE depthOf(_, _)
depthOf(list, id) ==
  IF ~hasMsg(list, id) \/ findMsg(list, id).parentId = NoId THEN 0
  ELSE 1 + depthOf(list, findMsg(list, id).parentId)

\* C19: a resolver run executes at least one and at most MAX_RESOLVE_PASSES
\* passes and stops after the first pass that changes nothing; and the parent
\* relation of the message list and of its ref is acyclic, so the walk along
\* parentId of the root lookup ends
C19_Terminates ==
  /\ acyclic(messages) /\ acyclic(messagesRef)
  /\ last.op = "resolve"
       => /\ last.passes \in 1..MAX_RESOLVE_PASSES
          /\ [n |-> last.passes, quiet |-> last.conv]
               = firstQuiet(last.snap, 1, MAX_RESOLVE_PASSES)

\* a resolver run that used all its passes, on a list with a reply chain of
\* depth four
C19_Witness ==
  /\ last.op = "resolve" /\ last.passes = MAX_RESOLVE_PASSES /\ ~last.conv
  /\ \E i \in Idx : depthOf(messages, messages[i].id) >= 4

\* what a commit keeps of message m of the list before it: the message itself,
\* its text, and its coordinates if it is the bubble being dragged
keptBy(list, m, dragged) ==
  /\ hasMsg(list, m.id)
  /\ findMsg(list, m.id).text = m.text
  /\ dragged => findMsg(list, m.id).x = m.x /\ findMsg(list, m.id).y = m.y

\* C20: a render that commits a placement pass discards no update made to the
\* message list since the snapshot of the pass: every message is still in the
\* list, with its text, and the dragged bubble keeps the coordinates of the drag
C20_CommitKeepsUpdates ==
  [][last'.op = "render"
       => \A i \in Idx :
             keptBy(messages', messages[i], drag.isDragging /\ drag.draggedId = messages[i].id)]_vars

\* parent and child, in this order in the snapshot of the pass, both unplaced
\* and measured when the pass starts
readyPair(list, i, j) ==
  /\ i < j /\ list[j].parentId = list[i].id
  /\ ~isPlaced(list[i]) /\ ~isPlaced(list[j])
  /\ sizes[list[i].id] # NoSize /\ sizes[list[j].id] # NoSize

\* C21: when a placement pass places a parent that precedes its child in the
\* list, and both were unplaced with known sizes when the pass started, the pass
\* places the child too
C21_SamePassChild ==
  last.op = "render" /\ last.changed
    => \A i, j \in 1..Len(last.snap) :
          readyPair(last.snap, i, j) /\ isPlaced(findMsg(messages, last.snap[i].id))
            => isPlaced(findMsg(messages, last.snap[j].id))

\* what a step may do to the queue of resolver runs: only a release that ends an
\* active drag schedules a run, and exactly one; a release without a drag changes
\* no message and schedules nothing; a scheduled run is taken off the queue by
\* the resolver run itself; only that run executes resolver passes
releaseStep ==
  /\ Len(raf') > Len(raf)
       => last'.op = "up" /\ drag.isDragging /\ Len(raf') = Len(raf) + 1
  /\ last'.op = "up" /\ drag.isDragging => Len(raf') = Len(raf) + 1
  /\ last'.op = "up" /\ ~drag.isDragging => messages' = messages /\ raf' = raf
  /\ Len(raf') < Len(raf) => last'.op = "resolve" /\ Len(raf') = Len(raf) - 1
  /\ last'.op = "resolve" => Len(raf') = Len(raf) - 1
  /\ last'.passes > 0 => last'.op = "resolve"
  /\ last'.op = "render" => last'.passes = 0 /\ raf' = raf

\* C22: the resolver runs only in response to a release that ends an active
\* drag: such a release schedules exactly one resolver run, which eventually
\* happens; a press and release without a drag changes no coordinate and
\* schedules nothing; a placement pass never runs the resolver
C22_ResolverOnRelease ==
  /\ [][releaseStep]_vars
  /\ (Len(raf) > 0) ~> (last.op = "resolve")

\* the resolver has run after the one drag of the run was released
C22_Witness ==
  last.op = "resolve" /\ drags > 0 /\ Len(raf) = 0 /\ ~drag.isDragging

\* C23: the passes of a resolver run leave the x of every main-chain message
\* alone: after the run it is the x the message had before, normalized
C23_MainChainKeepsX ==
  last.op = "resolve"
    => \A i \in 1..Len(last.snap) :
          isPlaced(last.snap[i]) /\ ~last.snap[i].isThread
            => findMsg(messages, last.snap[i].id).x = normalizeOne(last.snap[i]).x

\* the pair A, B of the sorted list is one the resolver resolves by pushing B down
pushesDown(A, B) ==
  /\ isPlaced(A) /\ isPlaced(B)
  /\ overlapAmount(A, B).x > 0 /\ overlapAmount(A, B).y > 0
  /\ pushDownChosen(A, B, overlapAmount(A, B))
sortedNow == sortByYX(messages, <<>>, 1)

\* C24: when a resolver run is about to start, every overlapping pair A before B
\* of its sorted list that it resolves by pushing B down gets B's new y at or
\* below the bottom edge of A
C24_PushedBelow ==
  Len(raf) > 0 /\ raf[1].kind = "resolve"
    => \A i, j \in 1..Len(messages) :
          i < j /\ pushesDown(sortedNow[i], sortedNow[j])
            => pushedDown(sortedNow[j], overlapAmount(sortedNow[i], sortedNow[j]).y).y
                 >= getRectFor(sortedNow[i]).y + getRectFor(sortedNow[i]).h

\* the pair A, B of a sorted list is one the resolver resolves by moving B sideways
pushesSideways(A, B) ==
  /\ isPlaced(A) /\ isPlaced(B)
  /\ overlapAmount(A, B).x > 0 /\ overlapAmount(A, B).y > 0
  /\ ~pushDownChosen(A, B, overlapAmount(A, B))
moveRight(A, B) == snap(B.x + overlapAmount(A, B).x + PADDING)
moveLeft(A, B) == snap(B.x - (overlapAmount(A, B).x + PADDING))
fitsRight(A, B) == moveRight(A, B) + sizeOr(B.id).w + EDGE_PADDING <= stageSizeRef.width
fitsLeft(A, B) == moveLeft(A, B) >= EDGE_PADDING
\* the side B leans toward if its candidate fits, else the other side if its
\* candidate fits, else the candidate given as the default
leaningX(A, B, default) ==
  IF B.x >= A.x
  THEN IF fitsRight(A, B) THEN moveRight(A, B)
       ELSE IF fitsLeft(A, B) THEN moveLeft(A, B) ELSE default
  ELSE IF fitsLeft(A, B) THEN moveLeft(A, B)
       ELSE IF fitsRight(A, B) THEN moveRight(A, B) ELSE default
sortedSnap == sortByYX(last.snap, <<>>, 1)
neitherFits(A, B) == pushesSideways(A, B) /\ ~fitsRight(A, B) /\ ~fitsLeft(A, B)

\* C25 as stated: for every pair of the list a resolver run started from that
\* it resolves sideways, the new x of B is the candidate on the side B leans
\* toward if it fits, else the other candidate if it fits, else the move-right
\* candidate
C25_DefaultRight ==
  last.op = "resolve"
    => \A i, j \in 1..Len(last.snap) :
          i < j /\ pushesSideways(sortedSnap[i], sortedSnap[j])
            => pushedSideways(sortedSnap[i], sortedSnap[j],
                              overlapAmount(sortedSnap[i], sortedSnap[j]).x).x
                 = leaningX(sortedSnap[i], sortedSnap[j], moveRight(sortedSnap[i], sortedSnap[j]))

\* C25 amended: as above, but when neither candidate fits the new x of B is the
\* move-left candidate
C25_DefaultLeft ==
  last.op = "resolve"
    => \A i, j \in 1..Len(last.snap) :
          i < j /\ pushesSideways(sortedSnap[i], sortedSnap[j])
            => pushedSideways(sortedSnap[i], sortedSnap[j],
                              overlapAmount(sortedSnap[i], sortedSnap[j]).x).x
                 = leaningX(sortedSnap[i], sortedSnap[j], moveLeft(sortedSnap[i], sortedSnap[j]))

\* a resolver run has moved the dropped branch sideways from a position in
\* which neither candidate fitted
C25_Witness ==
  /\ last.op = "resolve" /\ last.changed
  /\ \E i, j \in 1..Len(last.snap) :
        i < j /\ neitherFits(sortedSnap[i], sortedSnap[j]) /\ sortedSnap[j].id = 5

\* the grid rectangle g is the grid footprint of the pixel rect r (r expanded by
\* PADDING, in cells) extended by padCells on the left, right, top and bottom
paddedAround(r, g) ==
  /\ g.col = toCol(r.x) - padCells
  /\ g.col + g.spanX = toCol(r.x) + spanOf(r.w) + padCells
  /\ g.row = toRow(r.y) - padCells
  /\ g.row + g.spanY = toRow(r.y) + spanOf(r.h) + padCells
\* the padded footprint of r stays clear of the left and top edge columns
offEdges(r) == toCol(r.x) - padCells >= leftEdgeCol /\ toRow(r.y) - padCells >= leftEdgeCol
placedIn(list) == {i \in 1..Len(list) : isPlaced(list[i])}

\* C26: buildOccupancy returns one grid rectangle per placed message, and the
\* rectangle of a message away from the canvas edges is its grid footprint
\* extended by padCells on each of the four sides
C26_PaddedAllSides ==
  /\ Len(buildOccupancy(messagesRef, {})) = Cardinality(placedIn(messagesRef))
  /\ \A i \in placedIn(messagesRef) :
        offEdges(getRectFor(messagesRef[i]))
          => paddedAround(getRectFor(messagesRef[i]), getMsgGridRect(messagesRef[i]))


\* ------------------------------------------------------------------ C27
isPosition(pos) == pos.x \in Nat /\ pos.y \in Nat
\* the four finders on the occupancy occ, for a bubble w x h under the parent pr
findersReturn(list, occ, pr, w, h, m) ==
  /\ isPosition(findSlotBelow(occ, pr, w, h))
  /\ isPosition(findSlotBelowAtCenter(occ, 2 * pr.x + pr.w, pr, w, h))
  /\ isPosition(findSlotBelowAtX(occ, pr.x, pr, w, h))
  /\ \A side \in {"left", "right"} :
       /\ isPosition(choosePlacement(list, pr, w, h, {m.id}, side))
       /\ isPosition(findSlotBelowAtX(occ, sideAnchorX(side, pr, w), pr, w, h))
findersReturnFor(list, m) ==
  findersReturn(list, buildOccupancy(list, {m.id}), getRectFor(findMsg(list, m.parentId)),
                sizes[m.id].w, sizes[m.id].h, m)
\* C27: an exhausted search is never a failure.  On every canvas, the crowded
\* ones included, findSlotBelow, findSlotBelowAtCenter, findSlotBelowAtX and
\* choosePlacement return a position for every message that is ready to be
\* placed, and every message that was ready when a placement pass ran has
\* numeric x and y after it.
C27_NeverFails ==
  /\ \A i \in 1..Len(messagesRef) :
       readyIn(messagesRef, messagesRef[i]) /\ messagesRef[i].parentId # NoId
         => findersReturnFor(messagesRef, messagesRef[i])
  /\ last.op = "render"
       => \A i \in 1..Len(last.snap) :
            readyIn(last.snap, last.snap[i])
              => /\ hasMsg(messages, last.snap[i].id)
                 /\ isPosition(findMsg(messages, last.snap[i].id))
\* a thread start for which the row search returned null and the searches below
\* the parent were exhausted: it has been written at the last resort
exhaustedFor(list, m, pr) ==
  /\ m.isThread /\ m.user /\ ~findMsg(list, m.parentId).isThread
  /\ \A side \in {"left", "right"} :
       findSideSlotOnRow(buildOccupancy(list, {m.id}), pr, sizes[m.id].w, sizes[m.id].h, side)
         = NoPos
  /\ findMsg(messages, m.id).x = belowParent(pr).x
  /\ findMsg(messages, m.id).y = clampYNoBottom(belowParent(pr).y)
C27_Witness ==
  /\ last.op = "render"
  /\ \E i \in 1..Len(last.snap) :
       /\ readyIn(last.snap, last.snap[i])
       /\ last.snap[i].parentId # NoId
       /\ hasMsg(messages, last.snap[i].id)
       /\ exhaustedFor(last.snap, last.snap[i],
                       getRectFor(findMsg(last.snap, last.snap[i].parentId)))

\* ------------------------------------------------------------------ C28
\* C28 as stated: a recorded pinned center stays what it is until the canvas is
\* cleared
C28_PinnedOnce ==
  [][\A id \in Ids :
       rootCenters[id] # Null => rootCenters'[id] = rootCenters[id] \/ last'.op = "clear"]_vars
\* the step is the animation frame after the drop of root id: it re-pins the
\* root to the center of where it is (doubled, as rootCenters holds it)
repinOf(id) ==
  /\ last'.op = "pin"
  /\ Len(raf) > 0 /\ raf[1].kind = "pin" /\ raf[1].id = id
  /\ hasMsg(messagesRef, id) /\ findMsg(messagesRef, id).parentId = NoId
  /\ rootCenters'[id] = 2 * orZero(findMsg(messagesRef, id).x) + sizeOr(id).w
\* the step is a placement pass that places root m
placesRoot(m) ==
  /\ last'.op = "render" /\ last'.changed
  /\ m.parentId = NoId /\ ~isPlaced(m)
  /\ hasMsg(messages', m.id) /\ isPlaced(findMsg(messages', m.id))
\* C28, amended: the pinned center of a root is recorded when the root is
\* placed (the center of the root), and a recorded center changes only when
\* the canvas is cleared or when the root itself has been dragged and dropped:
\* the animation frame after the drop re-pins it to the center of the root.
\* Drags of other messages, resolver runs and placements leave it alone.
C28_PinnedUntilRootDrop ==
  [][/\ \A id \in Ids :
          rootCenters[id] # Null /\ rootCenters'[id] # rootCenters[id]
            => \/ last'.op = "clear" /\ rootCenters'[id] = Null
               \/ repinOf(id)
     /\ \A i \in 1..Len(messagesRef) :
          placesRoot(messagesRef[i])
            => rootCenters'[messagesRef[i].id]
                 = 2 * findMsg(messages', messagesRef[i].id).x + sizes[messagesRef[i].id].w]_vars
\* a dragged root has been re-pinned: its pinned center is the center of where
\* it was dropped, not the center it was placed at
C28_Witness ==
  /\ last.op = "pin"
  /\ drags > 0
  /\ \E i \in 1..Len(messagesRef) :
       /\ messagesRef[i].parentId = NoId /\ isPlaced(messagesRef[i])
       /\ rootCenters[messagesRef[i].id] = 2 * messagesRef[i].x + sizeOr(messagesRef[i].id).w
       /\ messagesRef[i].x # rootX(sizeOr(messagesRef[i].id).w)

\* ------------------------------------------------------------------ C29
\* the threadId the rule gives message m of the list, its parent being in the list
ruledThreadId(list, m) ==
  IF m.parentId = NoId THEN m.id
  ELSE IF ~m.isThread THEN getRootIdOf(list, m.parentId)
  ELSE IF findMsg(list, m.parentId).isThread THEN findMsg(list, m.parentId).threadId
  ELSE m.parentId
\* C29: every message has the threadId of the rule: a root its own id, a
\* main-chain message the id of the root of its chain, a thread message under a
\* thread message the parent's threadId, a thread message under a non-thread
\* message the parent's id; also when the parent was created in the same handler
C29_ThreadIdDerived ==
  \A i \in 1..Len(messages) :
    (messages[i].parentId # NoId => hasMsg(messages, messages[i].parentId))
      => messages[i].threadId = ruledThreadId(messages, messages[i])

\* ------------------------------------------------------------------ C30
\* the working state of the pass when its loop reaches index k: the iterations
\* i..k - 1 applied to st
RECURSIVE passUpTo(_, _, _)
passUpTo(st, i, k) == IF i >= k THEN st ELSE passUpTo(placeOne(st, i), i + 1, k)
passAt(k) ==
  passUpTo([next |-> messagesRef, centers |-> rootCenters, tailRef |-> mainTail,
            localTail |-> mainTail, stage |-> stageSize, changed |-> FALSE], 1, k)
\* does the pass place m with stackBelowAtX: a thread continuation or an
\* assistant reply in a thread
stacked(m) ==
  /\ ~skipped(m)
  /\ m.parentId # NoId /\ m.isThread
  /\ ~m.user \/ findMsg(messagesRef, m.parentId).isThread
\* the rectangle stackBelowAtX chooses for m in the working copy next
stackedRect(next, m, pr) ==
  [x |-> stackBelowAtX(next, pr.x, pr, sizes[m.id], m.id).x,
   y |-> stackBelowAtX(next, pr.x, pr, sizes[m.id], m.id).y,
   w |-> sizes[m.id].w, h |-> sizes[m.id].h]
clearOf(cand, placed) == \A j \in 1..Len(placed) : ~rectsOverlapPx(cand, placed[j])
stackedClear(next, m) ==
  clearOf(stackedRect(next, m, getRectFor(findMsg(next, m.parentId))),
          buildPlacedRectsExcluding(next, m.id))
\* C30: the position stackBelowAtX chooses for a thread continuation or an
\* assistant thread reply overlaps, in pixels, no message placed in the working
\* copy of the pass, those placed earlier in the same pass included
C30_StackedClear ==
  \A i \in 1..Len(messagesRef) :
    stacked(messagesRef[i]) => stackedClear(passAt(i).next, messagesRef[i])
\* the candidate right below the parent overlapped a placed message and was moved
pushedBelow(next, m, pr) ==
  stackedRect(next, m, pr).y # snap(pr.y + pr.h + GAP)
\* a stacked message is about to be placed in a pass that has placed another
\* message before it, and its first candidate was taken
C30_Witness ==
  \E i \in 1..Len(messagesRef) :
    /\ stacked(messagesRef[i])
    /\ passAt(i).changed
    /\ pushedBelow(passAt(i).next, messagesRef[i],
                   getRectFor(findMsg(passAt(i).next, messagesRef[i].parentId)))
====
